---- MODULE Spec2Model ----
(***************************************************************************)
(* Model of the Esc-interception and terminal-notification subsystem of    *)
(* main.py: the class _WindowsExclusiveEscHook (low-level keyboard hook    *)
(* with its own thread), the tier selection and worker-lifecycle wiring of *)
(* Application, and the four notification handlers of Application.         *)
(*                                                                         *)
(* Time is time.time() counted in ticks of 50 ms: 0.25 s = 5 ticks,        *)
(* 0.35 s = 7 ticks, 2.0 s = 40 ticks.  The fields the code initialises to *)
(* 0.0 hold 0, and the clock starts at Epoch, far from 0.                  *)
(***************************************************************************)
EXTENDS Integers, Sequences, FiniteSets, Bags, TLC

\* ---------------------------------------------------------------- bounds
\* time.time() when the process starts, in ticks
Epoch == 100
\* how far the clock may advance in the hook specification
MaxTime == 7
\* how far the clock may advance in the notification specification
MaxLongTime == 43
\* key events delivered by the operating system
MaxKeys == 2
\* worker runs in the notification specification
MaxRuns == 2
\* worker runs in the hook specification
MaxHookRuns == 1
\* terminal signals one worker run may emit by itself
MaxSignals == 2
\* calls of _WindowsExclusiveEscHook.start(), the one of the setup included
MaxStartCalls == 2
\* events waiting in the UI context's queue
MaxQueue == 2
\* pieces of a text given to _simplify_for_teacher
MaxTextLen == 2
\* exceptions raised inside _hook_proc
MaxFaults == 1
\* calls of connect_worker_signals
MaxSetups == 2
\* calls of SignalConnectionManager.connect made one by one since the managed
\* list was last cleared
MaxExtra == 2

\* ------------------------------------------------------ program constants
\* 0.25 s, the limit of _hook_proc
DEBOUNCE == 5
\* 0.35 s, the limit of _on_press
PASSIVE_DEBOUNCE == 7
\* 2.0 s, the window show_manual_intervention_notification opens
SUPPRESS_WINDOW == 40
\* _simplify_for_teacher quotes 80 characters of the text at most
TIP_LIMIT == 80

VARIABLES
    platform,   \* what the process finds: sys.platform, SetWindowsHookExW, the optional libraries
    now,        \* time.time()
    \* _WindowsExclusiveEscHook
    _enabled, _last_hit_ts, _hook_handle, _thread, _thread_id,
    threads,    \* the ExclusiveEscHook threads the process has spawned: their position
    os_hooks,   \* the hook handles the operating system holds installed
    wm_quit,    \* the thread ids a WM_QUIT has been posted to
    cb,         \* the _hook_proc call in progress
    accesses,   \* the reads and writes of the hook object's fields done so far
    \* Application
    _suppress_error_dialog_until, _global_esc_listener, _global_esc_last_hit_ts,
    _exclusive_esc_hotkey_id,
    app_pc,     \* "init" before _setup_global_esc_support, "ready", "quit" after aboutToQuit
    ui_queue,   \* what is posted to the UI thread: queued signals and singleShot(0) calls
    dialogs,    \* the modal dialogs whose exec_() has not returned, innermost last
    ui_running, \* the main window's running state
    main_window, \* where the main window is: "front", "behind", "minimized"
    \* GradingThread
    worker_running, run_id, emitted, stop_flag,
    \* history of the run, read by the properties only
    keys_sent,      \* key events delivered so far
    key_result,     \* what became of the last key event: "none", "pending", "forwarded", "swallowed"
    key_abort,      \* whether the last key event was the abort key going down
    hook_faults,    \* exceptions raised inside _hook_proc so far
    tier_log,       \* what _setup_global_esc_support told main_window.log_message:
                    \* "none", "native", "keyboard", "listener", "unavailable"
    stop_requests,  \* stop requests scheduled so far
    last_stop_at,   \* when the last of them was scheduled, 0 before
    installs,       \* successful SetWindowsHookExW calls so far
    start_calls,    \* calls of start() so far
    start_ret,      \* what the last call of start() returned: "none", "true", "false", "raised"
    started_run,    \* the run whose start event was handled last, 0 before
    manual_at,      \* when the last manual-intervention signal was handled, 0 before
    manual_since_start, \* whether one was handled since the last worker.start()
    last_error,     \* the last error signal handled: when, its message, dialog or not
    handled,        \* per run: terminal signals handled
    presented,      \* per run: notification dialogs opened
    \* the calls of the interceptor's operations, one by one
    api_last,       \* the operation called last: "none", "enable", "disable", "stop"
    api_seq,        \* flips at every such call
    api_snap,       \* the interceptor's state as that call left it
    \* _simplify_for_teacher
    cls_in,         \* the text it is given
    cls_out,        \* the sentence it returned, "none" before
    cls_tip,        \* what of the text that sentence quotes, and whether "..." follows
    \* the interceptor's lock, with set_enabled and _hook_proc taken step by step
    _lock,          \* who holds self._lock: "free", "ui", "hook"
    se_call,        \* the set_enabled call in progress: where it is, its argument
    hp_call,        \* the _hook_proc call in progress: where it is, its event, its copy of the flag
    lock_accesses,  \* field accesses done since the lock was last acquired
    \* SignalConnectionManager and the signals of the worker
    connections,    \* self.connections: the (signal, slot) objects it manages
    qt_conns,       \* the connections Qt holds, each as often as it was made
    mgr_hist        \* the manager's last call, and how many calls were made

hookvars == <<_enabled, _last_hit_ts, _hook_handle, _thread, _thread_id,
              threads, os_hooks, wm_quit, cb>>
appvars  == <<_suppress_error_dialog_until, _global_esc_listener,
              _global_esc_last_hit_ts, _exclusive_esc_hotkey_id, app_pc>>
uivars   == <<ui_queue, dialogs, ui_running>>
workvars == <<worker_running, run_id, emitted, stop_flag>>
keyhist   == <<keys_sent, key_result, key_abort>>
stophist  == <<stop_requests, last_stop_at>>
starthist == <<start_calls, start_ret>>
sighist   == <<started_run, handled, presented, manual_at, last_error>>
lockvars  == <<_lock, se_call, hp_call, lock_accesses>>
mgrvars   == <<connections, qt_conns, mgr_hist>>
aux       == <<api_last, api_seq, api_snap, cls_in, cls_out, cls_tip, lockvars, mgrvars>>
auxlog    == <<aux, accesses>>
histvars  == <<keyhist, stophist, installs, starthist, sighist>>
vars == <<platform, manual_since_start, tier_log, hook_faults, main_window, auxlog, now, hookvars, appvars, uivars, workvars,
          histvars>>

\* ------------------------------------------------------------ environment
\* sys.platform == 'win32'; SetWindowsHookExW returns a handle; Thread.start()
\* succeeds; the keyboard and the pynput libraries import.  A platform that is
\* not win32 has no native hook to give.  Whether pynput imports is read by
\* _setup_global_esc_to_stop_if_running alone, which only win32 can reach: off
\* win32 the field is left FALSE.
Platforms ==
    { p \in [win32 : BOOLEAN, hook_ok : BOOLEAN, spawn_ok : BOOLEAN,
             keyboard : BOOLEAN, pynput : BOOLEAN] :
        /\ (~p.win32 => ~p.spawn_ok)
        /\ (~p.spawn_ok => ~p.hook_ok)
        /\ (p.pynput => p.win32) }

\* The key events of the operating system, as _hook_proc receives them.
KeyEvents ==
    { [nCode |-> "HC_ACTION", wParam |-> "WM_KEYDOWN",    vkCode |-> "VK_ESCAPE"],
      [nCode |-> "HC_ACTION", wParam |-> "WM_SYSKEYDOWN", vkCode |-> "VK_ESCAPE"],
      [nCode |-> "HC_ACTION", wParam |-> "WM_KEYUP",      vkCode |-> "VK_ESCAPE"],
      [nCode |-> "HC_ACTION", wParam |-> "WM_KEYDOWN",    vkCode |-> "VK_OTHER"],
      [nCode |-> "HC_NOREMOVE", wParam |-> "WM_KEYDOWN",  vkCode |-> "VK_ESCAPE"] }

\* Error messages, as sequences of the pieces the handlers look for, the Chinese
\* ones written in pinyin: "gai ti xu rengong jieru" (this question needs manual
\* intervention), "yonghu shoudong tingzhi" (stopped manually by the user).
MsgNetwork == <<"connection", "timed out">>
MsgManual  == <<"gaiti", "xu", "rengongjieru">>
MsgStop    == <<"yonghu", "shoudongtingzhi">>
\* A message with a pattern of both kinds.
MsgBoth    == <<"rengongjieru", "shoudongtingzhi">>
ErrorMessages == {MsgNetwork, MsgManual, MsgStop, MsgBoth}

NoEvent == [nCode |-> "none", wParam |-> "none", vkCode |-> "none"]
NoMsg == <<>>
Event(t, m, r) == [type |-> t, msg |-> m, run |-> r]
TerminalTypes == {"finished", "error", "threshold", "manual"}

Runs == 1..(IF MaxRuns > MaxHookRuns THEN MaxRuns ELSE MaxHookRuns)

\* No _hook_proc call is in progress.
\* No text quoted.
NoTip == [text |-> <<>>, ellipsis |-> FALSE]

CbIdle == [active |-> FALSE, tid |-> 0, ev |-> NoEvent, enabled |-> FALSE]

\* No set_enabled call, no _hook_proc call taken step by step.
SeIdle == [pc |-> "idle", arg |-> FALSE]
HpIdle == [pc |-> "idle", tid |-> 0, ev |-> NoEvent, enabled |-> FALSE]

\* A Python object that stands for a signal or a slot: what it is bound to,
\* and its id().
Obj(n, k) == [name |-> n, id |-> k]
NoObj == Obj("none", 0)

\* No call of the manager yet.
NoCall == [op |-> "none", signal |-> NoObj, slot |-> NoObj, seq |-> 0, extra |-> 0,
           setups |-> 0]

InitState ==
    /\ platform \in Platforms
    /\ now = Epoch
    /\ _enabled = FALSE
    /\ _last_hit_ts = 0
    /\ _hook_handle = 0
    /\ _thread = 0
    /\ _thread_id = 0
    /\ threads = <<>>
    /\ os_hooks = {}
    /\ wm_quit = {}
    /\ cb = CbIdle
    /\ accesses = {}
    /\ _suppress_error_dialog_until = 0
    /\ _global_esc_listener = "none"
    /\ _global_esc_last_hit_ts = 0
    /\ _exclusive_esc_hotkey_id = 0
    /\ app_pc = "init"
    /\ ui_queue = <<>>
    /\ dialogs = <<>>
    /\ ui_running = FALSE
    /\ worker_running = FALSE
    /\ run_id = 0
    /\ emitted = 0
    /\ stop_flag = FALSE
    /\ keys_sent = 0
    /\ key_result = "none"
    /\ key_abort = FALSE
    /\ stop_requests = 0
    /\ last_stop_at = 0
    /\ installs = 0
    /\ start_calls = 0
    /\ start_ret = "none"
    /\ started_run = 0
    /\ manual_at = 0
    /\ last_error = [at |-> 0, msg |-> NoMsg, shown |-> FALSE, branch |-> "none"]
    /\ handled = [r \in Runs |-> 0]
    /\ presented = [r \in Runs |-> 0]
    /\ api_last = "none"
    /\ api_seq = 0
    /\ api_snap = <<>>
    /\ cls_out = "none"
    /\ cls_tip = NoTip
    /\ main_window = "front"
    /\ hook_faults = 0
    /\ tier_log = "none"
    /\ manual_since_start = FALSE
    /\ _lock = "free"
    /\ se_call = SeIdle
    /\ hp_call = HpIdle
    /\ lock_accesses = 0
    /\ connections = <<>>
    /\ qt_conns = EmptyBag
    /\ mgr_hist = NoCall

\* The state after Application.__init__ up to _setup_global_esc_support; no
\* error text has been given to _simplify_for_teacher.
Init == InitState /\ cls_in = <<>>

\* ------------------------------------------------- _WindowsExclusiveEscHook
\* One access of a field of the hook object after its construction: the
\* field, the thread, read or write, and whether self._lock is held.
Access(f, t, o, l) == [field |-> f, thread |-> t, op |-> o, locked |-> l]

\* The write of the flag done without the lock.
set_enabled_access_nolock == Access("_enabled", "ui", "write", FALSE)

\* set_enabled: "with self._lock: self._enabled = bool(enabled)"
set_enabled_access == Access("_enabled", "ui", "write", TRUE)

\* _hook_proc: "with self._lock: enabled = self._enabled"
hook_proc_enabled_access == Access("_enabled", "hook", "read", TRUE)

\* _hook_proc: "if now - float(self._last_hit_ts) >= 0.25" and
\* "self._last_hit_ts = now", both after the with block
hook_proc_ts_read == Access("_last_hit_ts", "hook", "read", FALSE)
hook_proc_ts_write == Access("_last_hit_ts", "hook", "write", FALSE)

\* _hook_proc: CallNextHookEx(self._hook_handle, ...)
hook_proc_handle_read == Access("_hook_handle", "hook", "read", FALSE)

\* _thread_main: the assignments of _thread_id and of _hook_handle, and the
\* read of _hook_handle in the finally block
thread_id_write == Access("_thread_id", "hook", "write", FALSE)
thread_handle_write == Access("_hook_handle", "hook", "write", FALSE)
thread_handle_read == Access("_hook_handle", "hook", "read", FALSE)

\* A stop() that looks at the handle.
stop_access_handle == Access("_hook_handle", "ui", "read", FALSE)

\* stop(): "if self._thread_id:"
stop_access == Access("_thread_id", "ui", "read", FALSE)

\* start(): "if self._thread is not None" and "self._thread = t"
start_thread_read == Access("_thread", "ui", "read", FALSE)
start_thread_write == Access("_thread", "ui", "write", FALSE)

\* A flag that is flipped where it should be set.
set_enabled_toggle(e) == _enabled' = ~_enabled

\* set_enabled: the flag is written under the lock, nothing else is touched.
set_enabled(e) == _enabled' = e

\* start() without its second early return.
AlreadyStarted_never == FALSE

\* start(): "if self._thread is not None: return True"
AlreadyStarted == _thread # 0

\* start(): False off win32; True without a second thread when one was started;
\* otherwise the thread is created and started (Thread.start() may raise, and
\* then _thread is left None) and True is returned whatever the thread will do.
start ==
    /\ start_calls' = start_calls + 1
    /\ IF ~platform.win32
         THEN start_ret' = "false" /\ UNCHANGED <<_thread, threads>>
         ELSE IF AlreadyStarted
         THEN start_ret' = "true" /\ UNCHANGED <<_thread, threads>>
         ELSE IF ~platform.spawn_ok
         THEN start_ret' = "raised" /\ UNCHANGED <<_thread, threads>>
         ELSE /\ threads' = Append(threads, "start")
              /\ _thread' = Len(threads) + 1
              /\ start_ret' = "true"

\* The fields start() reads and writes.
start_touches ==
    IF ~platform.win32 THEN {}
    ELSE IF AlreadyStarted \/ ~platform.spawn_ok THEN {start_thread_read}
    ELSE {start_thread_read, start_thread_write}

\* The field stop() reads.
stop_touches == IF platform.win32 THEN {stop_access} ELSE {}

\* stop(): posts WM_QUIT to the thread whose id the hook thread has stored.
stop ==
    wm_quit' = IF platform.win32 /\ _thread_id # 0
                 THEN wm_quit \cup {_thread_id} ELSE wm_quit

\* _thread_main, first statements: _proc_ref and _thread_id are stored.
ThreadSetId(i) ==
    /\ threads[i] = "start"
    /\ _thread_id' = i
    /\ threads' = [threads EXCEPT ![i] = "install"]
    /\ accesses' = accesses \cup {thread_id_write}
    /\ UNCHANGED <<platform, manual_since_start, tier_log, hook_faults, main_window, aux,
                   now, _enabled, _last_hit_ts, _hook_handle, _thread, os_hooks, wm_quit,
                   cb, appvars, uivars, workvars, histvars>>

\* _thread_main: SetWindowsHookExW; a null handle leaves through the finally.
ThreadInstall(i) ==
    /\ threads[i] = "install"
    /\ IF platform.hook_ok
         THEN /\ _hook_handle' = i
              /\ os_hooks' = os_hooks \cup {i}
              /\ installs' = installs + 1
              /\ threads' = [threads EXCEPT ![i] = "loop"]
         ELSE /\ _hook_handle' = 0
              /\ threads' = [threads EXCEPT ![i] = "finally"]
              /\ UNCHANGED <<os_hooks, installs>>
    /\ accesses' = accesses \cup {thread_handle_write}
    /\ UNCHANGED <<platform, manual_since_start, tier_log, hook_faults, main_window, aux,
                   now, _enabled, _last_hit_ts, _thread, _thread_id, wm_quit, cb, appvars,
                   uivars, workvars, keyhist, stophist, starthist, sighist>>

\* _thread_main: GetMessageW returns 0 on the WM_QUIT that stop() posted.
ThreadQuit(i) ==
    /\ threads[i] = "loop"
    /\ i \in wm_quit
    /\ ~cb.active
    /\ threads' = [threads EXCEPT ![i] = "finally"]
    /\ UNCHANGED <<platform, manual_since_start, tier_log, hook_faults, main_window,
                   auxlog, now, _enabled, _last_hit_ts, _hook_handle, _thread, _thread_id,
                   os_hooks, wm_quit, cb, appvars, uivars, workvars, histvars>>

\* _thread_main, finally: unhook the handle the field holds, clear the field.
ThreadFinally(i) ==
    /\ threads[i] = "finally"
    /\ os_hooks' = os_hooks \ {_hook_handle}
    /\ _hook_handle' = 0
    /\ threads' = [threads EXCEPT ![i] = "dead"]
    /\ accesses' = accesses \cup {thread_handle_read, thread_handle_write}
    /\ UNCHANGED <<platform, manual_since_start, tier_log, hook_faults, main_window, aux,
                   now, _enabled, _last_hit_ts, _thread, _thread_id, wm_quit, cb, appvars,
                   uivars, workvars, histvars>>

\* Esc going down, as the operating system reports it.
IsAbortTrigger(ev) ==
    /\ ev.nCode = "HC_ACTION"
    /\ ev.wParam \in {"WM_KEYDOWN", "WM_SYSKEYDOWN"}
    /\ ev.vkCode = "VK_ESCAPE"

\* Any event of the Esc key, its release included.
Recognized_any_esc(ev) == ev.vkCode = "VK_ESCAPE"

\* _hook_proc: the events it looks at
Recognized(ev) ==
    /\ ev.nCode = "HC_ACTION"
    /\ ev.wParam \in {"WM_KEYDOWN", "WM_SYSKEYDOWN"}
    /\ ev.vkCode = "VK_ESCAPE"

\* The callback that never looks at the worker.
should_swallow_always == TRUE

\* Application.__init__: should_swallow=lambda: bool(self.worker and self.worker.isRunning())
should_swallow == worker_running

\* The limit with > in place of >=.
DebounceElapsed_strict(t, last) == t - last > DEBOUNCE

\* _hook_proc: "if now - float(self._last_hit_ts) >= 0.25"
DebounceElapsed(t, last) == t - last >= DEBOUNCE

\* Application.__init__: on_esc=lambda: QTimer.singleShot(0, self.main_window.stop_auto_thread)
on_esc ==
    /\ ui_queue' = Append(ui_queue, Event("stop", NoMsg, run_id))
    /\ stop_requests' = stop_requests + 1
    /\ last_stop_at' = now

\* The hook threads that sit in GetMessageW with their hook installed.
Pumping == { h \in os_hooks : threads[h] = "loop" }

\* _hook_proc is entered for a key event: an event it does not look at goes to
\* CallNextHookEx; for Esc going down it reads _enabled under the lock.
HookProcEnter(ev, h) ==
    /\ h \in Pumping
    /\ ~cb.active
    /\ keys_sent < MaxKeys
    /\ keys_sent' = keys_sent + 1
    /\ key_abort' = IsAbortTrigger(ev)
    /\ IF Recognized(ev)
         THEN cb' = [active |-> TRUE, tid |-> h, ev |-> ev, enabled |-> _enabled]
              /\ key_result' = "pending"
         ELSE cb' = CbIdle /\ key_result' = "forwarded"
    /\ accesses' = accesses \cup (IF Recognized(ev) THEN {hook_proc_enabled_access}
                                 ELSE {hook_proc_handle_read})
    /\ UNCHANGED <<platform, manual_since_start, tier_log, hook_faults, main_window, aux,
                   now, _enabled, _last_hit_ts, _hook_handle, _thread, _thread_id, threads,
                   os_hooks, wm_quit, appvars, uivars, workvars, stophist, installs,
                   starthist, sighist>>

\* The fields _hook_proc reads and writes after the with block.
hook_proc_touches ==
    IF cb.enabled /\ should_swallow
      THEN IF DebounceElapsed(now, _last_hit_ts)
             THEN {hook_proc_ts_read, hook_proc_ts_write}
             ELSE {hook_proc_ts_read}
      ELSE {hook_proc_handle_read}

\* The callback that tells the worker to stop by itself, on the hook thread.
HookProcAct_direct ==
    /\ cb.active
    /\ Len(ui_queue) < MaxQueue
    /\ cb' = CbIdle
    /\ IF cb.enabled /\ should_swallow
         THEN /\ key_result' = "swallowed"
              /\ IF DebounceElapsed(now, _last_hit_ts)
                   THEN /\ _last_hit_ts' = now
                        /\ stop_flag' = TRUE
                        /\ stop_requests' = stop_requests + 1
                        /\ last_stop_at' = now
                   ELSE UNCHANGED <<_last_hit_ts, stop_flag, stophist>>
         ELSE /\ key_result' = "forwarded"
              /\ UNCHANGED <<_last_hit_ts, stop_flag, stophist>>
    /\ accesses' = accesses \cup hook_proc_touches
    /\ UNCHANGED <<platform, manual_since_start, tier_log, hook_faults, main_window, aux,
                   now, _enabled, _hook_handle, _thread, _thread_id, threads, os_hooks,
                   wm_quit, appvars, uivars, worker_running, run_id, emitted, keys_sent,
                   key_abort, installs, starthist, sighist>>

\* _hook_proc after the lock is released: swallow when enabled was read true and
\* the worker runs, with a stop request when 0.25 s have passed since the last.
HookProcAct ==
    /\ cb.active
    /\ Len(ui_queue) < MaxQueue
    /\ cb' = CbIdle
    /\ IF cb.enabled /\ should_swallow
         THEN /\ key_result' = "swallowed"
              /\ IF DebounceElapsed(now, _last_hit_ts)
                   THEN _last_hit_ts' = now /\ on_esc
                   ELSE UNCHANGED <<_last_hit_ts, ui_queue, stophist>>
         ELSE /\ key_result' = "forwarded"
              /\ UNCHANGED <<_last_hit_ts, ui_queue, stophist>>
    /\ accesses' = accesses \cup hook_proc_touches
    /\ UNCHANGED <<platform, manual_since_start, tier_log, hook_faults, main_window, aux,
                   now, _enabled, _hook_handle, _thread, _thread_id, threads, os_hooks,
                   wm_quit, appvars, dialogs, ui_running, workvars, keys_sent, key_abort,
                   installs, starthist, sighist>>

\* The places of _hook_proc where a call can raise: the read of the flag
\* under the lock, self._should_swallow(), self._on_esc().
FaultPlaces == {"enabled", "should_swallow", "on_esc"}

\* Whether the callback in progress gets as far as the place.
Reaches(place) ==
    CASE place = "enabled" -> TRUE
      [] place = "should_swallow" -> cb.enabled
      [] place = "on_esc" ->
            cb.enabled /\ should_swallow /\ DebounceElapsed(now, _last_hit_ts)

\* An exception that leaves _hook_proc and ends the hook thread's loop.
except_branch_escapes(h) ==
    /\ key_result' = "forwarded"
    /\ threads' = [threads EXCEPT ![h] = "finally"]

\* _hook_proc: "except Exception: return user32.CallNextHookEx(...)"; the
\* thread goes back to GetMessageW.
except_branch(h) ==
    /\ key_result' = "forwarded"
    /\ UNCHANGED threads

\* _hook_proc with an exception raised at one of its calls: what was assigned
\* before the call stays assigned, the except branch forwards the event.
HookProcFault(place) ==
    /\ cb.active
    /\ hook_faults < MaxFaults
    /\ Reaches(place)
    /\ hook_faults' = hook_faults + 1
    /\ cb' = CbIdle
    /\ _last_hit_ts' = IF place = "on_esc" THEN now ELSE _last_hit_ts
    /\ except_branch(cb.tid)
    /\ accesses' = accesses \cup {hook_proc_handle_read} \cup
         (CASE place = "enabled" -> {}
            [] place = "should_swallow" -> {}
            [] place = "on_esc" -> {hook_proc_ts_read, hook_proc_ts_write})
    /\ UNCHANGED <<platform, manual_since_start, tier_log, main_window, aux, now, _enabled,
                   _hook_handle, _thread, _thread_id, os_hooks, wm_quit, appvars, uivars,
                   workvars, keys_sent, key_abort, stophist, installs, starthist, sighist>>

\* ------------------------------------------------------------ Application
\* An Application without the hook object.
WinHookPresent_never == FALSE

\* Application.__init__ builds self._win_exclusive_esc on every platform and
\* nothing sets it to None.
WinHookPresent == TRUE

\* The listener of pynput: "none", "running", "stopped".
ListenerRunning == _global_esc_listener = "running"

\* The field of the hook the two slots write, through set_enabled.
enable_touches == IF platform.win32 /\ WinHookPresent THEN {set_enabled_access} ELSE {}
disable_touches == IF WinHookPresent THEN {set_enabled_access} ELSE {}

\* The slot without its platform check.
enable_exclusive_esc_anywhere ==
    set_enabled(TRUE) /\ UNCHANGED _exclusive_esc_hotkey_id

\* _enable_exclusive_esc_if_possible, the slot of worker.started.
enable_exclusive_esc_if_possible ==
    IF ~platform.win32
      THEN UNCHANGED <<_enabled, _exclusive_esc_hotkey_id>>
      ELSE IF WinHookPresent
      THEN set_enabled(TRUE) /\ UNCHANGED _exclusive_esc_hotkey_id
      ELSE /\ UNCHANGED _enabled
           /\ _exclusive_esc_hotkey_id' =
                IF platform.keyboard /\ _exclusive_esc_hotkey_id = 0
                  THEN 1 ELSE _exclusive_esc_hotkey_id

\* The cleanup that forgets the flag of the hook.
disable_exclusive_esc_keeps_flag ==
    /\ UNCHANGED _enabled
    /\ _exclusive_esc_hotkey_id' =
         IF platform.keyboard THEN 0 ELSE _exclusive_esc_hotkey_id

\* _disable_exclusive_esc: the flag of the hook, then the hotkey of the
\* keyboard library when that library is there.
disable_exclusive_esc ==
    /\ IF WinHookPresent THEN set_enabled(FALSE) ELSE UNCHANGED _enabled
    /\ _exclusive_esc_hotkey_id' =
         IF platform.keyboard THEN 0 ELSE _exclusive_esc_hotkey_id

\* _setup_global_esc_to_stop_if_running: when pynput did not import, the line
\* that says no library is installed is logged; else the listener is started
\* and the line of the degraded mode is logged.
setup_global_esc_to_stop_if_running ==
    /\ _global_esc_listener' =
          IF platform.pynput THEN "running" ELSE _global_esc_listener
    /\ tier_log' = IF platform.pynput THEN "listener" ELSE "unavailable"

\* The selection that goes on to the listener whatever came before.
EarlierTierChosen_never == FALSE

\* _setup_global_esc_support: the two returns before the listener is set up,
\* "if self._win_exclusive_esc.start(): ... return" and
\* "if _keyboard is not None: ... return".
EarlierTierChosen == start_ret' = "true" \/ platform.keyboard

\* _setup_global_esc_support, called at the end of Application.__init__: nothing
\* off win32; else start() and return when it returned True; else (start() raised)
\* return when the keyboard library is there; else the listener.
SetupGlobalEscSupport ==
    /\ app_pc = "init"
    /\ app_pc' = "ready"
    /\ IF ~platform.win32
         THEN UNCHANGED <<_thread, threads, start_calls, start_ret,
                          _global_esc_listener, tier_log>>
         ELSE /\ start
              /\ IF EarlierTierChosen
                   THEN /\ UNCHANGED _global_esc_listener
                        /\ tier_log' = IF start_ret' = "true" THEN "native"
                                                              ELSE "keyboard"
                   ELSE setup_global_esc_to_stop_if_running
    /\ accesses' = accesses \cup (IF platform.win32 THEN start_touches ELSE {})
    /\ UNCHANGED <<platform, manual_since_start, hook_faults, main_window, aux, now,
                   _enabled, _last_hit_ts, _hook_handle, _thread_id, os_hooks, wm_quit, cb,
                   _suppress_error_dialog_until, _global_esc_last_hit_ts,
                   _exclusive_esc_hotkey_id, uivars, workvars, keyhist, stophist, installs,
                   sighist>>

\* A further call of start() on the UI thread.
ExtraStart ==
    /\ app_pc # "init"
    /\ start_calls < MaxStartCalls
    /\ start
    /\ accesses' = accesses \cup start_touches
    /\ UNCHANGED <<platform, manual_since_start, tier_log, hook_faults, main_window, aux,
                   now, _enabled, _last_hit_ts, _hook_handle, _thread_id, os_hooks,
                   wm_quit, cb, appvars, uivars, workvars, keyhist, stophist, installs,
                   sighist>>

\* aboutToQuit: on win32 its slots are _disable_exclusive_esc,
\* _stop_global_esc_listener and _stop_windows_exclusive_esc.
AboutToQuit ==
    /\ app_pc = "ready"
    /\ dialogs = <<>>
    /\ app_pc' = "quit"
    /\ IF platform.win32
         THEN /\ disable_exclusive_esc
              /\ _global_esc_listener' =
                   IF ListenerRunning THEN "stopped" ELSE _global_esc_listener
              /\ stop
         ELSE UNCHANGED <<_enabled, _exclusive_esc_hotkey_id, _global_esc_listener,
                          wm_quit>>
    /\ accesses' = accesses \cup (IF platform.win32 THEN disable_touches \cup stop_touches ELSE {})
    /\ UNCHANGED <<platform, manual_since_start, tier_log, hook_faults, main_window, aux,
                   now, _last_hit_ts, _hook_handle, _thread, _thread_id, threads, os_hooks,
                   cb, _suppress_error_dialog_until, _global_esc_last_hit_ts, uivars,
                   workvars, histvars>>

\* The state of the interceptor: the fields of the hook object, its thread and
\* hook, the pending WM_QUIT, and the hotkey and listener of the Application.
ApiState ==
    <<_enabled, _last_hit_ts, _hook_handle, _thread, _thread_id, threads,
      os_hooks, wm_quit, _exclusive_esc_hotkey_id, _global_esc_listener>>

\* What a call of one of the interceptor's operations leaves alone, and the
\* record of the call.  Every exception inside the operations is caught
\* there (lines 189, 603, 640, 650): the call returns.
ApiCall(name) ==
    /\ app_pc = "ready"
    /\ api_last' = name
    /\ api_seq' = 1 - api_seq
    /\ UNCHANGED <<platform, manual_since_start, tier_log, hook_faults, main_window,
                   cls_in, cls_out, cls_tip, lockvars, mgrvars, now, _last_hit_ts,
                   _hook_handle,
                   _thread,
                   _thread_id, threads, os_hooks, cb, _suppress_error_dialog_until,
                   _global_esc_listener, _global_esc_last_hit_ts, app_pc, uivars, workvars,
                   histvars>>
    /\ api_snap' = ApiState'

\* _enable_exclusive_esc_if_possible called once more.
CallEnable ==
    /\ enable_exclusive_esc_if_possible
    /\ accesses' = accesses \cup enable_touches
    /\ UNCHANGED wm_quit
    /\ ApiCall("enable")

\* _disable_exclusive_esc called once more.
CallDisable ==
    /\ disable_exclusive_esc
    /\ accesses' = accesses \cup disable_touches
    /\ UNCHANGED wm_quit
    /\ ApiCall("disable")

\* _stop_windows_exclusive_esc, that is stop(), called once more.
CallStop ==
    /\ stop
    /\ accesses' = accesses \cup stop_touches
    /\ UNCHANGED <<_enabled, _exclusive_esc_hotkey_id>>
    /\ ApiCall("stop")

\* The listener that never looks at the worker.
listener_worker_running_always == TRUE

\* _on_press: "hasattr(self, 'worker') and self.worker and self.worker.isRunning()"
listener_worker_running == worker_running

\* _on_press of the listener thread: Esc only; the time of the hit is stored
\* before the worker is looked at; the key is never held back.
ListenerOnPress(ev) ==
    /\ ListenerRunning
    /\ keys_sent < MaxKeys
    /\ Len(ui_queue) < MaxQueue
    /\ keys_sent' = keys_sent + 1
    /\ key_result' = "forwarded"
    /\ key_abort' = IsAbortTrigger(ev)
    /\ IF Recognized(ev) /\ ~(now - _global_esc_last_hit_ts < PASSIVE_DEBOUNCE)
         THEN /\ _global_esc_last_hit_ts' = now
              /\ IF listener_worker_running
                   THEN on_esc
                   ELSE UNCHANGED <<ui_queue, stophist>>
         ELSE UNCHANGED <<_global_esc_last_hit_ts, ui_queue, stophist>>
    /\ UNCHANGED <<platform, manual_since_start, tier_log, hook_faults, main_window,
                   auxlog, now, hookvars, _suppress_error_dialog_until,
                   _global_esc_listener, _exclusive_esc_hotkey_id, app_pc, dialogs,
                   ui_running, workvars, installs, starthist, sighist>>

\* A key event while no hook thread pumps and no listener runs: the operating
\* system hands it to the applications.
KeyUnhooked(ev) ==
    /\ Pumping = {}
    /\ ~ListenerRunning
    /\ keys_sent < MaxKeys
    /\ keys_sent' = keys_sent + 1
    /\ key_result' = "forwarded"
    /\ key_abort' = IsAbortTrigger(ev)
    /\ UNCHANGED <<platform, manual_since_start, tier_log, hook_faults, main_window,
                   auxlog, now, hookvars, appvars, uivars, workvars, stophist, installs,
                   starthist, sighist>>

\* ---------------------------------------------------------- the worker
\* worker.start() on the UI thread: the thread runs and its started signal is
\* queued to the UI thread.  A modal dialog keeps the main window from input.
WorkerStart(limit) ==
    /\ app_pc = "ready"
    /\ ~worker_running
    /\ dialogs = <<>>
    /\ run_id < limit
    /\ Len(ui_queue) < MaxQueue
    /\ worker_running' = TRUE
    /\ manual_since_start' = FALSE
    /\ run_id' = run_id + 1
    /\ emitted' = 0
    /\ stop_flag' = FALSE
    /\ ui_running' = TRUE
    /\ ui_queue' = Append(ui_queue, Event("started", NoMsg, run_id + 1))
    /\ UNCHANGED <<platform, tier_log, hook_faults, main_window, auxlog, now, hookvars,
                   appvars, dialogs, histvars>>

\* The running worker emits one of its four terminal signals.
WorkerEmit(t, m) ==
    /\ worker_running
    /\ emitted < MaxSignals
    /\ Len(ui_queue) < MaxQueue
    /\ emitted' = emitted + 1
    /\ ui_queue' = Append(ui_queue, Event(t, m, run_id))
    /\ UNCHANGED <<platform, manual_since_start, tier_log, hook_faults, main_window,
                   auxlog, now, hookvars, appvars, dialogs, ui_running, worker_running,
                   run_id, stop_flag, histvars>>

\* run() returns after at least one terminal signal.
WorkerExit ==
    /\ worker_running
    /\ emitted >= 1
    /\ worker_running' = FALSE
    /\ UNCHANGED <<platform, manual_since_start, tier_log, hook_faults, main_window,
                   auxlog, now, hookvars, appvars, uivars, run_id, emitted, stop_flag,
                   histvars>>

\* The worker sees the stop request: it emits Error("yonghu shoudong tingzhi")
\* and run() returns.
WorkerStopped ==
    /\ worker_running
    /\ stop_flag
    /\ Len(ui_queue) < MaxQueue
    /\ worker_running' = FALSE
    /\ emitted' = emitted + 1
    /\ ui_queue' = Append(ui_queue, Event("error", MsgStop, run_id))
    /\ UNCHANGED <<platform, manual_since_start, tier_log, hook_faults, main_window,
                   auxlog, now, hookvars, appvars, dialogs, ui_running, run_id, stop_flag,
                   histvars>>

\* ------------------------------------------------------- the UI thread
\* The UI thread takes what is first in its queue; inside a dialog's exec_()
\* the nested event loop does the same.
UiNext(t) ==
    /\ app_pc = "ready"
    /\ ui_queue # <<>>
    /\ Head(ui_queue).type = t
    /\ ui_queue' = Tail(ui_queue)

\* MainWindow.update_ui_state(is_running=...)
update_ui_state(r) == ui_running' = r

\* MainWindow.on_worker_finished and MainWindow.on_worker_error leave the
\* window in the not-running state.
on_worker_finished == ui_running' = FALSE
on_worker_error == ui_running' = FALSE

\* dialog.exec_(): the dialog opens and the handler waits in it.
exec_dialog(kind, r) ==
    /\ dialogs' = Append(dialogs, [kind |-> kind, run |-> r])
    /\ presented' = [presented EXCEPT ![r] = @ + 1]

\* The slot of worker.started.
UiStarted ==
    /\ UiNext("started")
    /\ enable_exclusive_esc_if_possible
    /\ started_run' = Head(ui_queue).run
    /\ accesses' = accesses \cup enable_touches
    /\ UNCHANGED <<platform, manual_since_start, tier_log, hook_faults, main_window, aux,
                   now, _last_hit_ts, _hook_handle, _thread, _thread_id, threads, os_hooks,
                   wm_quit, cb, _suppress_error_dialog_until, _global_esc_listener,
                   _global_esc_last_hit_ts, app_pc, dialogs, ui_running, workvars, keyhist,
                   stophist, installs, starthist, handled, presented, manual_at,
                   last_error>>

\* What a terminal handler leaves alone.
HandlerFrame ==
    UNCHANGED <<platform, tier_log, hook_faults, aux, now, _last_hit_ts, _hook_handle,
                _thread, _thread_id, threads, os_hooks, wm_quit, cb, _global_esc_listener,
                _global_esc_last_hit_ts, app_pc, workvars, keyhist, stophist, installs,
                starthist, started_run>>

\* finished_signal: _disable_exclusive_esc, then show_completion_notification
\* up to dialog.exec_().
ShowCompletion ==
    /\ UiNext("finished")
    /\ LET r == Head(ui_queue).run IN
         /\ disable_exclusive_esc
         /\ on_worker_finished
         /\ exec_dialog("completed", r)
         /\ handled' = [handled EXCEPT ![r] = @ + 1]
    /\ UNCHANGED <<_suppress_error_dialog_until, manual_at, last_error>>
    /\ accesses' = accesses \cup disable_touches
    /\ UNCHANGED <<main_window, manual_since_start>>
    /\ HandlerFrame

\* Whether pat occurs in msg.
Contains(msg, pat) ==
    \E i \in 1..(Len(msg) - Len(pat) + 1) : SubSeq(msg, i, i + Len(pat) - 1) = pat

\* The window with its end included.
InSuppressWindow_closed(t) == t <= _suppress_error_dialog_until

\* show_error_notification: "if time.time() < float(self._suppress_error_dialog_until)"
InSuppressWindow(t) == t < _suppress_error_dialog_until

\* show_error_notification: the four needs-manual patterns
NeedsManual(msg) ==
    \E pat \in { <<"xu", "rengongjieru">>, <<"xuyao", "rengongjieru">>,
                 <<"rengongjieru">>, <<"yichangshijuan">> } : Contains(msg, pat)

\* No message is taken for a stop by the user.
UserStopped_never(msg) == FALSE

\* show_error_notification: the two user-stop patterns
UserStopped(msg) ==
    \/ Contains(msg, <<"yonghu", "shoudongtingzhi">>)
    \/ Contains(msg, <<"shoudongtingzhi">>)

\* The two tests on the message in the other order.
MessageBranch_stop_first(msg) ==
    IF UserStopped(msg) THEN "userstop"
    ELSE IF NeedsManual(msg) THEN "manual"
    ELSE "present"

\* show_error_notification after the test of the window: the needs-manual
\* patterns, then the user-stop patterns, then the dialog.
MessageBranch(msg) ==
    IF NeedsManual(msg) THEN "manual"
    ELSE IF UserStopped(msg) THEN "userstop"
    ELSE "present"

\* The branches without the one of the user-stop patterns.
ErrorOutcome_no_userstop(msg) ==
    IF InSuppressWindow(now) THEN "window"
    ELSE IF NeedsManual(msg) THEN "manual"
    ELSE "present"

\* show_error_notification: the branch taken, in the order of the code.
ErrorOutcome(msg) ==
    IF InSuppressWindow(now) THEN "window"
    ELSE MessageBranch(msg)

\* error_signal: show_error_notification up to its return or its dialog.exec_().
ShowError ==
    /\ UiNext("error")
    /\ LET r == Head(ui_queue).run
           out == ErrorOutcome(Head(ui_queue).msg)
       IN
         /\ disable_exclusive_esc
         /\ handled' = [handled EXCEPT ![r] = @ + 1]
         /\ last_error' = [at |-> now, msg |-> Head(ui_queue).msg,
                           shown |-> (out = "present"), branch |-> out]
         /\ CASE out \in {"window", "manual"} ->
                   update_ui_state(FALSE) /\ UNCHANGED <<dialogs, presented>>
              [] out = "userstop" ->
                   on_worker_error /\ UNCHANGED <<dialogs, presented>>
              [] out = "present" ->
                   on_worker_error /\ exec_dialog("error", r)
    /\ UNCHANGED <<_suppress_error_dialog_until, manual_at>>
    /\ accesses' = accesses \cup disable_touches
    /\ UNCHANGED <<main_window, manual_since_start>>
    /\ HandlerFrame

\* The handler that leaves the disarming to the slot connected after it.
ShowThreshold_late ==
    /\ UiNext("threshold")
    /\ LET r == Head(ui_queue).run IN
         /\ on_worker_error
         /\ exec_dialog("threshold", r)
         /\ handled' = [handled EXCEPT ![r] = @ + 1]
    /\ UNCHANGED <<_enabled, _exclusive_esc_hotkey_id,
                   _suppress_error_dialog_until, manual_at, last_error>>
    /\ UNCHANGED accesses
    /\ UNCHANGED <<main_window, manual_since_start>>
    /\ HandlerFrame

\* threshold_exceeded_signal: show_threshold_exceeded_notification up to exec_().
ShowThreshold ==
    /\ UiNext("threshold")
    /\ LET r == Head(ui_queue).run IN
         /\ disable_exclusive_esc
         /\ on_worker_error
         /\ exec_dialog("threshold", r)
         /\ handled' = [handled EXCEPT ![r] = @ + 1]
    /\ UNCHANGED <<_suppress_error_dialog_until, manual_at, last_error>>
    /\ accesses' = accesses \cup disable_touches
    /\ UNCHANGED <<main_window, manual_since_start>>
    /\ HandlerFrame

\* The handler that leaves the window as it was.
open_suppress_window_never == UNCHANGED _suppress_error_dialog_until

\* show_manual_intervention_notification:
\* "self._suppress_error_dialog_until = time.time() + 2.0"
open_suppress_window == _suppress_error_dialog_until' = now + SUPPRESS_WINDOW

\* manual_intervention_signal: show_manual_intervention_notification up to exec_().
ShowManual ==
    /\ UiNext("manual")
    /\ main_window' = IF main_window = "minimized" THEN "front" ELSE main_window
    /\ LET r == Head(ui_queue).run IN
         /\ disable_exclusive_esc
         /\ open_suppress_window
         /\ update_ui_state(FALSE)
         /\ exec_dialog("manual", r)
         /\ handled' = [handled EXCEPT ![r] = @ + 1]
    /\ manual_at' = now
    /\ manual_since_start' = TRUE
    /\ UNCHANGED last_error
    /\ accesses' = accesses \cup disable_touches
    /\ HandlerFrame

\* QTimer.singleShot(0, self.main_window.stop_auto_thread) comes due: the
\* running worker is told to stop.
UiStop ==
    /\ UiNext("stop")
    /\ stop_flag' = (stop_flag \/ worker_running)
    /\ UNCHANGED <<platform, manual_since_start, tier_log, hook_faults, main_window,
                   auxlog, now, hookvars, appvars, dialogs, ui_running, worker_running,
                   run_id, emitted, histvars>>

\* The handler that brings the window back only when it was minimized.
restore_main_window_if_minimized ==
    main_window' = IF main_window = "minimized" THEN "front" ELSE main_window

\* After dialog.exec_(): "if self.main_window.isMinimized(): showNormal()",
\* then raise_() and activateWindow().
restore_main_window == main_window' = "front"

\* The innermost dialog is dismissed: exec_() returns, the handler restores the
\* window and returns, and for error, threshold and manual intervention the
\* slot connected after the handler, _disable_exclusive_esc, runs.
DialogDismiss ==
    /\ app_pc = "ready"
    /\ dialogs # <<>>
    /\ dialogs' = SubSeq(dialogs, 1, Len(dialogs) - 1)
    /\ restore_main_window
    /\ IF dialogs[Len(dialogs)].kind = "completed"
         THEN UNCHANGED <<_enabled, _exclusive_esc_hotkey_id>>
         ELSE disable_exclusive_esc
    /\ accesses' = accesses \cup (IF dialogs[Len(dialogs)].kind = "completed"
                                 THEN {} ELSE disable_touches)
    /\ UNCHANGED <<platform, manual_since_start, tier_log, hook_faults, aux, now,
                   _last_hit_ts, _hook_handle, _thread, _thread_id, threads, os_hooks,
                   wm_quit, cb, _suppress_error_dialog_until, _global_esc_listener,
                   _global_esc_last_hit_ts, app_pc, ui_queue, ui_running, workvars,
                   histvars>>

\* The user minimizes the main window, or another window comes in front of it.
WindowLeavesFront(w) ==
    /\ main_window = "front"
    /\ main_window' = w
    /\ UNCHANGED <<platform, manual_since_start, tier_log, hook_faults, auxlog, now,
                   hookvars, appvars, uivars, workvars, histvars>>

\* ------------------------------------------------- _simplify_for_teacher
\* A text is a sequence of pieces; a piece is a run of characters with its
\* letters in lower case (up = FALSE) or in upper case (up = TRUE); digits,
\* blanks and Chinese characters have one case only.  The Chinese patterns
\* are written in pinyin: "yue" (balance), "beizhanyong" (is occupied),
\* "zhengzaishiyong" (in use).
\* len() of the words the texts are made of; "yue" stands for two Chinese
\* characters, "beizhanyong" for three, "zhengzaishiyong" for four.
WordLen(w) ==
    CASE w \in {" "} -> 1
      [] w \in {"yue"} -> 2
      [] w \in {"401", "403", "429", "502", "503", "504", "beizhanyong"} -> 3
      [] w \in {"zhengzaishiyong"} -> 4
      [] w \in {"quota"} -> 5
      [] w \in {"timeout", "payment"} -> 7
      [] w \in {"too many"} -> 8
      [] w \in {"timed out", "forbidden"} -> 9
      [] w \in {"rate limit", "permission", "connection"} -> 10
      [] w \in {"bad gateway"} -> 11
      [] w \in {"unauthorized", "insufficient"} -> 12
      [] w \in {"invalid api key"} -> 15
      [] w \in {"access is denied"} -> 16
      [] w \in {"service unavailable"} -> 19

Piece(w, u) == [w |-> w, up |-> u, n |-> WordLen(w)]

\* A run of n characters that belong to no pattern.
Filler(n) == [w |-> "x", up |-> FALSE, n |-> n]

PatTimeout  == {"timed out", "timeout"}
PatAuth     == {"401", "unauthorized", "invalid api key"}
PatQuota    == {"403", "forbidden", "quota", "yue", "payment", "insufficient"}
PatRate     == {"429", "rate limit", "too many"}
PatUpstream == {"502", "503", "504", "service unavailable", "bad gateway"}
PatFile     == {"permission", "access is denied", "beizhanyong", "zhengzaishiyong"}

\* The pieces the texts are made of: patterns of every list, in both cases
\* where they have letters, a word of no list, and a blank.
Cased   == {"timed out", "timeout", "unauthorized", "forbidden", "rate limit",
            "bad gateway", "permission", "connection"}
Caseless == {"401", "429", "503", "yue", " "}
FillerLens == {70, 79, 80, 81}
Pieces == { Piece(w, u) : w \in Cased, u \in BOOLEAN } \cup
          { Piece(w, FALSE) : w \in Caseless } \cup
          { Filler(n) : n \in FillerLens }
Texts == UNION { [1..n -> Pieces] : n \in 0..MaxTextLen }

\* str.strip(): the blanks at both ends go.
RECURSIVE Strip(_)
Strip(t) ==
    IF t = <<>> THEN t
    ELSE IF Head(t).w = " " THEN Strip(Tail(t))
    ELSE IF t[Len(t)].w = " " THEN Strip(SubSeq(t, 1, Len(t) - 1))
    ELSE t

\* The text left as it is written.
Lower_keep(t) == t

\* str.lower()
Lower(t) == [i \in 1..Len(t) |-> [t[i] EXCEPT !.up = FALSE]]

\* "any(k in low for k in [...])"
AnyIn(low, pats) == \E k \in pats : Contains(low, <<Piece(k, FALSE)>>)

\* _simplify_for_teacher: which sentence it returns.
simplify_for_teacher(text) ==
    LET t == Strip(text)
        low == Lower(t)
    IN  IF AnyIn(low, PatTimeout) THEN "timeout"
        ELSE IF AnyIn(low, PatAuth) THEN "auth"
        ELSE IF AnyIn(low, PatQuota) THEN "quota"
        ELSE IF AnyIn(low, PatRate) THEN "rate"
        ELSE IF AnyIn(low, PatUpstream) THEN "upstream"
        ELSE IF AnyIn(low, PatFile) THEN "file"
        ELSE IF t = <<>> THEN "empty"
        ELSE "generic"

\* len(t)
RECURSIVE TextLen(_)
TextLen(t) == IF t = <<>> THEN 0 ELSE Head(t).n + TextLen(Tail(t))

\* t[:k]
RECURSIVE Take(_, _)
Take(t, k) ==
    IF t = <<>> \/ k = 0 THEN <<>>
    ELSE IF Head(t).n <= k THEN <<Head(t)>> \o Take(Tail(t), k - Head(t).n)
    ELSE <<[Head(t) EXCEPT !.n = k]>>

\* The marker put after a text that is exactly at the limit, too.
Ellipsis_at_limit(t) == TextLen(t) >= TIP_LIMIT

\* "'...' if len(t) > 80 else ''"
Ellipsis(t) == TextLen(t) > TIP_LIMIT

\* The last return of _simplify_for_teacher: f"...{t[:80]}{'...' if len(t) > 80 else ''}"
teacher_tip(text) ==
    LET t == Strip(text) IN
      IF simplify_for_teacher(text) = "generic"
        THEN [text |-> Take(t, TIP_LIMIT), ellipsis |-> Ellipsis(t)]
        ELSE NoTip

\* One call of _simplify_for_teacher.
Classify ==
    /\ cls_out = "none"
    /\ cls_out' = simplify_for_teacher(cls_in)
    /\ cls_tip' = teacher_tip(cls_in)
    /\ UNCHANGED <<platform, manual_since_start, tier_log, hook_faults, main_window,
                   api_last, api_seq, api_snap, cls_in, lockvars, mgrvars, accesses, now,
                   hookvars,
                   appvars, uivars, workvars, histvars>>

\* ---------------------------------------------------------------- time
Tick(d) ==
    /\ now' = now + d
    /\ UNCHANGED <<platform, manual_since_start, tier_log, hook_faults, main_window,
                   auxlog, hookvars, appvars, uivars, workvars, histvars>>

\* The clock of the hook specification: any number of ticks up to MaxTime.
TickShort == \E d \in 1..MaxTime : now + d <= Epoch + MaxTime /\ Tick(d)

\* The clock of the notification specification: 0.5 s, 1.95 s, 2.0 s, 2.1 s.
LongSteps == {10, 39, 40, 42}
TickLong == \E d \in LongSteps : now + d <= Epoch + MaxLongTime /\ Tick(d)

\* ------------------------------------------------ SignalConnectionManager
\* What connect_worker_signals hands to signal_manager.connect, in its order:
\* a signal of the worker and a slot; "lambda" is
\* "lambda *_args: self._disable_exclusive_esc()".  The worker has all of the
\* signals that hasattr() asks for.
ManagedPairs ==
    << <<"log_signal", "log_message">>,
       <<"record_signal", "save_grading_record">>,
       <<"finished_signal", "show_completion_notification">>,
       <<"error_signal", "show_error_notification">>,
       <<"error_signal", "lambda">>,
       <<"threshold_exceeded_signal", "show_threshold_exceeded_notification">>,
       <<"threshold_exceeded_signal", "lambda">>,
       <<"manual_intervention_signal", "show_manual_intervention_notification">>,
       <<"manual_intervention_signal", "lambda">> >>

\* What connect_worker_signals connects by itself, without the manager.
DirectPairs ==
    { <<"started", "_enable_exclusive_esc_if_possible">>,
      <<"finished_signal", "_disable_exclusive_esc">> }

\* The pairs given to the manager's connect when it is called by itself.
ApiPairs == { ManagedPairs[3], ManagedPairs[5] }

\* The connection Qt holds for a signal and a slot.  A bound method is the
\* same slot whichever object stands for it; a lambda is a slot of its own.
QtKey(signal, slot) ==
    [signal |-> signal.name, slot |-> slot.name,
     lam |-> IF slot.name = "lambda" THEN slot.id ELSE 0]

\* The id() of the objects that are alive: those the managed list holds and
\* the lambdas Qt holds.
LiveIds(conns, qt) ==
    {conns[i].signal.id : i \in 1..Len(conns)} \cup
    {conns[i].slot.id : i \in 1..Len(conns)} \cup
    {k.lam : k \in BagToSet(qt)}

\* id() of a new object: a value that no object alive has.  Only whether two
\* ids are equal is ever looked at, so the least such value stands for all.
NewId(used) ==
    CHOOSE k \in 1..(Cardinality(used) + 1) :
        k \notin used /\ \A j \in 1..(k - 1) : j \in used

\* "self.worker.x_signal" and "self.y" evaluated anew: attribute access gives
\* a new bound signal and a new bound method, a lambda expression a new
\* function.
FreshPair(conns, qt, p) ==
    LET used == LiveIds(conns, qt)
        a == NewId(used)
    IN  [signal |-> Obj(p[1], a), slot |-> Obj(p[2], NewId(used \cup {a}))]

\* signal.disconnect(slot): TypeError, which the manager catches, when the
\* slot is not connected to the signal; else the connection is gone.
qt_disconnect(qt, k) == IF BagIn(k, qt) THEN qt (-) SetToBag({k}) ELSE qt

\* signal.connect(slot)
qt_connect(qt, k) == qt (+) SetToBag({k})

\* connect: "connection_key in [(id(s), id(sl)) for s, sl in self.connections]"
ConnectionKeyIn(conns, signal, slot) ==
    \E i \in 1..Len(conns) :
        conns[i].signal.id = signal.id /\ conns[i].slot.id = slot.id

\* SignalConnectionManager.connect: nothing when the key is found; else the
\* slot is disconnected if it was connected, connected, and the pair appended.
manager_connect(st, signal, slot) ==
    IF ConnectionKeyIn(st.conns, signal, slot)
      THEN st
      ELSE [conns |-> Append(st.conns, [signal |-> signal, slot |-> slot]),
            qt |-> qt_connect(qt_disconnect(st.qt, QtKey(signal, slot)),
                              QtKey(signal, slot))]

\* disconnect_all: the loop over self.connections
RECURSIVE DisconnectEach(_, _, _)
DisconnectEach(qt, conns, i) ==
    IF i > Len(conns)
      THEN qt
      ELSE DisconnectEach(qt_disconnect(qt, QtKey(conns[i].signal, conns[i].slot)),
                          conns, i + 1)

\* SignalConnectionManager.disconnect_all: every managed pair is disconnected,
\* a failure is counted, and the list is cleared.
disconnect_all(st) ==
    [conns |-> <<>>, qt |-> DisconnectEach(st.qt, st.conns, 1)]

\* connect_worker_signals: the calls of signal_manager.connect from the i-th
\* on, each with objects made for the call.
RECURSIVE ConnectEach(_, _)
ConnectEach(st, i) ==
    IF i > Len(ManagedPairs)
      THEN st
      ELSE LET o == FreshPair(st.conns, st.qt, ManagedPairs[i])
           IN  ConnectEach(manager_connect(st, o.signal, o.slot), i + 1)

\* connect_worker_signals: disconnect_all, the two connections made without
\* the manager, the nine made with it.
connect_worker_signals(st) ==
    LET s0 == disconnect_all(st)
        direct == { [signal |-> p[1], slot |-> p[2], lam |-> 0] : p \in DirectPairs }
    IN  ConnectEach([s0 EXCEPT !.qt = s0.qt (+) SetToBag(direct)], 1)

\* What a call of the manager leaves alone.
ManagerFrame ==
    UNCHANGED <<platform, manual_since_start, tier_log, hook_faults, main_window,
                api_last, api_seq, api_snap, cls_in, cls_out, cls_tip, lockvars,
                accesses, now, hookvars, appvars, uivars, workvars, histvars>>

\* The manager as a call finds it.
ManagerState == [conns |-> connections, qt |-> qt_conns]

\* signal_manager.connect(signal, slot) called by itself for pair p: each of
\* the two objects is new (i, j = 0) or one that the managed list holds.
ManagerConnect(p, i, j) ==
    /\ mgr_hist.extra < MaxExtra
    /\ i > 0 => connections[i].signal.name = p[1]
    /\ j > 0 => connections[j].slot.name = p[2]
    /\ LET new == FreshPair(connections, qt_conns, p)
           signal == IF i > 0 THEN connections[i].signal ELSE new.signal
           slot == IF j > 0 THEN connections[j].slot ELSE new.slot
           st == manager_connect(ManagerState, signal, slot)
       IN  /\ connections' = st.conns
           /\ qt_conns' = st.qt
           /\ mgr_hist' = [mgr_hist EXCEPT !.op = "connect", !.signal = signal,
                                           !.slot = slot, !.seq = 1 - @,
                                           !.extra = @ + 1]
    /\ ManagerFrame

\* signal_manager.disconnect_all() called by itself.
ManagerDisconnectAll ==
    /\ connections' = disconnect_all(ManagerState).conns
    /\ qt_conns' = disconnect_all(ManagerState).qt
    /\ mgr_hist' = [mgr_hist EXCEPT !.op = "disconnect_all", !.signal = NoObj,
                                    !.slot = NoObj, !.seq = 1 - @, !.extra = 0]
    /\ ManagerFrame

\* connect_worker_signals called, the first time by _setup_application.
ConnectWorkerSignals ==
    /\ mgr_hist.setups < MaxSetups
    /\ connections' = connect_worker_signals(ManagerState).conns
    /\ qt_conns' = connect_worker_signals(ManagerState).qt
    /\ mgr_hist' = [mgr_hist EXCEPT !.op = "connect_worker_signals",
                                    !.signal = NoObj, !.slot = NoObj,
                                    !.seq = 1 - @, !.extra = 0, !.setups = @ + 1]
    /\ ManagerFrame

\* ------------------------------------------------------ the lock, by steps
\* What the steps of set_enabled and of _hook_proc leave alone beside the
\* variables named in each action.
LockFrame ==
    UNCHANGED <<platform, manual_since_start, tier_log, hook_faults, main_window,
                api_last, api_seq, api_snap, cls_in, cls_out, cls_tip, mgrvars, now,
                _hook_handle, _thread, _thread_id, threads, os_hooks, wm_quit, cb, appvars,
                dialogs,
                ui_running, workvars, installs, starthist, sighist>>

\* A with block that leaves the lock held when it is left.
with_lock_exit_keeps == UNCHANGED _lock

\* "with self._lock:" is left: Lock.__exit__ releases the lock.
with_lock_exit == _lock' = "free"

\* "with self._lock:" is entered by thread t: Lock.__enter__ blocks until the
\* lock is free and takes it.
with_lock_enter(t) ==
    /\ _lock = "free"
    /\ _lock' = t
    /\ lock_accesses' = 0

\* The UI thread calls set_enabled(e), from _enable_exclusive_esc_if_possible
\* (e true) or from _disable_exclusive_esc (e false); it comes to the with.
SetEnabledCall(e) ==
    /\ app_pc = "ready"
    /\ platform.win32 /\ WinHookPresent
    /\ se_call.pc = "idle"
    /\ se_call' = [pc |-> "acquire", arg |-> e]
    /\ UNCHANGED <<_lock, hp_call, lock_accesses, accesses, _enabled, _last_hit_ts,
                   ui_queue, keyhist, stophist>>
    /\ LockFrame

\* set_enabled: the lock is taken.
SetEnabledAcquire ==
    /\ se_call.pc = "acquire"
    /\ with_lock_enter("ui")
    /\ se_call' = [se_call EXCEPT !.pc = "write"]
    /\ UNCHANGED <<hp_call, accesses, _enabled, _last_hit_ts, ui_queue, keyhist,
                   stophist>>
    /\ LockFrame

\* set_enabled: "self._enabled = bool(enabled)"
SetEnabledWrite ==
    /\ se_call.pc = "write"
    /\ set_enabled(se_call.arg)
    /\ se_call' = [se_call EXCEPT !.pc = "exit"]
    /\ lock_accesses' = lock_accesses + 1
    /\ accesses' = accesses \cup {set_enabled_access}
    /\ UNCHANGED <<_lock, hp_call, _last_hit_ts, ui_queue, keyhist, stophist>>
    /\ LockFrame

\* set_enabled: the with block is left and the call returns.
SetEnabledExit ==
    /\ se_call.pc = "exit"
    /\ with_lock_exit
    /\ se_call' = SeIdle
    /\ UNCHANGED <<hp_call, lock_accesses, accesses, _enabled, _last_hit_ts, ui_queue,
                   keyhist, stophist>>
    /\ LockFrame

\* _hook_proc is called for a key event: Esc going down comes to the with,
\* any other event to CallNextHookEx.
HookProcCall(ev, h) ==
    /\ h \in Pumping
    /\ hp_call.pc = "idle"
    /\ keys_sent < MaxKeys
    /\ keys_sent' = keys_sent + 1
    /\ key_abort' = IsAbortTrigger(ev)
    /\ key_result' = "pending"
    /\ hp_call' = [pc |-> IF Recognized(ev) THEN "acquire" ELSE "forward",
                   tid |-> h, ev |-> ev, enabled |-> FALSE]
    /\ UNCHANGED <<_lock, se_call, lock_accesses, accesses, _enabled, _last_hit_ts,
                   ui_queue, stophist>>
    /\ LockFrame

\* _hook_proc: the lock is taken.
HookProcAcquire ==
    /\ hp_call.pc = "acquire"
    /\ with_lock_enter("hook")
    /\ hp_call' = [hp_call EXCEPT !.pc = "read"]
    /\ UNCHANGED <<se_call, accesses, _enabled, _last_hit_ts, ui_queue, keyhist,
                   stophist>>
    /\ LockFrame

\* _hook_proc: "enabled = self._enabled"
HookProcRead ==
    /\ hp_call.pc = "read"
    /\ hp_call' = [hp_call EXCEPT !.pc = "exit", !.enabled = _enabled]
    /\ lock_accesses' = lock_accesses + 1
    /\ accesses' = accesses \cup {hook_proc_enabled_access}
    /\ UNCHANGED <<_lock, se_call, _enabled, _last_hit_ts, ui_queue, keyhist, stophist>>
    /\ LockFrame

\* _hook_proc: the with block is left.
HookProcExit ==
    /\ hp_call.pc = "exit"
    /\ with_lock_exit
    /\ hp_call' = [hp_call EXCEPT !.pc = "test"]
    /\ UNCHANGED <<se_call, lock_accesses, accesses, _enabled, _last_hit_ts, ui_queue,
                   keyhist, stophist>>
    /\ LockFrame

\* _hook_proc: "if enabled and bool(self._should_swallow())"
HookProcTest ==
    /\ hp_call.pc = "test"
    /\ hp_call' = [hp_call EXCEPT !.pc = IF hp_call.enabled /\ should_swallow
                                           THEN "swallow" ELSE "forward"]
    /\ UNCHANGED <<_lock, se_call, lock_accesses, accesses, _enabled, _last_hit_ts,
                   ui_queue, keyhist, stophist>>
    /\ LockFrame

\* _hook_proc: the debounce, self._on_esc() when 0.25 s have passed, "return 1"
HookProcSwallow ==
    /\ hp_call.pc = "swallow"
    /\ Len(ui_queue) < MaxQueue
    /\ hp_call' = HpIdle
    /\ key_result' = "swallowed"
    /\ IF DebounceElapsed(now, _last_hit_ts)
         THEN /\ _last_hit_ts' = now
              /\ on_esc
              /\ accesses' = accesses \cup {hook_proc_ts_read, hook_proc_ts_write}
         ELSE /\ UNCHANGED <<_last_hit_ts, ui_queue, stophist>>
              /\ accesses' = accesses \cup {hook_proc_ts_read}
    /\ UNCHANGED <<_lock, se_call, lock_accesses, _enabled, keys_sent, key_abort>>
    /\ LockFrame

\* _hook_proc: "return user32.CallNextHookEx(self._hook_handle, ...)"
HookProcForward ==
    /\ hp_call.pc = "forward"
    /\ hp_call' = HpIdle
    /\ key_result' = "forwarded"
    /\ accesses' = accesses \cup {hook_proc_handle_read}
    /\ UNCHANGED <<_lock, se_call, lock_accesses, _enabled, _last_hit_ts, ui_queue,
                   keys_sent, key_abort, stophist>>
    /\ LockFrame

\* The UI thread is not inside set_enabled and would not wait at its with: a
\* handler that calls set_enabled runs from start to end.
UiFree == se_call.pc = "idle" /\ _lock = "free"

\* ------------------------------------------------------- specifications
\* The interceptor: tier selection, the hook thread, key events, and the worker
\* runs that arm and disarm it.
Next ==
    \/ SetupGlobalEscSupport
    \/ ExtraStart
    \/ AboutToQuit
    \/ \E i \in 1..Len(threads) : ThreadSetId(i)
    \/ \E i \in 1..Len(threads) : ThreadInstall(i)
    \/ \E i \in 1..Len(threads) : ThreadQuit(i)
    \/ \E i \in 1..Len(threads) : ThreadFinally(i)
    \/ \E ev \in KeyEvents, h \in os_hooks : HookProcEnter(ev, h)
    \/ HookProcAct
    \/ \E ev \in KeyEvents : ListenerOnPress(ev)
    \/ \E ev \in KeyEvents : KeyUnhooked(ev)
    \/ WorkerStart(MaxHookRuns)
    \/ WorkerEmit("finished", NoMsg)
    \/ WorkerExit
    \/ WorkerStopped
    \/ UiStarted
    \/ ShowCompletion
    \/ ShowError
    \/ UiStop
    \/ DialogDismiss
    \/ TickShort

Spec == Init /\ [][Next]_vars

\* The notifications: worker runs emitting any terminal signals, the four
\* handlers and their dialogs, on a win32 platform whose hook installs.
InitNotify ==
    /\ Init
    /\ platform = [win32 |-> TRUE, hook_ok |-> TRUE, spawn_ok |-> TRUE,
                   keyboard |-> FALSE, pynput |-> FALSE]

NextNotify ==
    \/ SetupGlobalEscSupport
    \/ WorkerStart(MaxRuns)
    \/ WorkerEmit("finished", NoMsg)
    \/ WorkerEmit("threshold", NoMsg)
    \/ WorkerEmit("manual", NoMsg)
    \/ \E m \in ErrorMessages : WorkerEmit("error", m)
    \/ WorkerExit
    \/ UiStarted
    \/ ShowCompletion
    \/ ShowError
    \/ ShowThreshold
    \/ ShowManual
    \/ DialogDismiss
    \/ \E w \in {"behind", "minimized"} : WindowLeavesFront(w)
    \/ TickLong

SpecNotify == InitNotify /\ [][NextNotify]_vars

\* The operations of the interceptor called in any order and any number of
\* times, before and after start(), with the hook thread running beside them.
NextApi ==
    \/ SetupGlobalEscSupport
    \/ ExtraStart
    \/ CallEnable
    \/ CallDisable
    \/ CallStop
    \/ \E i \in 1..Len(threads) : ThreadSetId(i)
    \/ \E i \in 1..Len(threads) : ThreadInstall(i)
    \/ \E i \in 1..Len(threads) : ThreadQuit(i)
    \/ \E i \in 1..Len(threads) : ThreadFinally(i)

SpecApi == Init /\ [][NextApi]_vars

\* The hook callback with exceptions raised inside it, on a win32 platform
\* whose hook installs.
InitFault ==
    /\ Init
    /\ platform = [win32 |-> TRUE, hook_ok |-> TRUE, spawn_ok |-> TRUE,
                   keyboard |-> FALSE, pynput |-> FALSE]

NextFault ==
    \/ SetupGlobalEscSupport
    \/ \E i \in 1..Len(threads) : ThreadSetId(i)
    \/ \E i \in 1..Len(threads) : ThreadInstall(i)
    \/ \E ev \in KeyEvents, h \in os_hooks : HookProcEnter(ev, h)
    \/ HookProcAct
    \/ \E place \in FaultPlaces : HookProcFault(place)
    \/ WorkerStart(MaxHookRuns)
    \/ WorkerEmit("finished", NoMsg)
    \/ WorkerExit
    \/ UiStarted
    \/ ShowCompletion
    \/ UiStop
    \/ DialogDismiss
    \/ TickShort

SpecFault == InitFault /\ [][NextFault]_vars

\* _simplify_for_teacher applied to every text of the bounded set.
InitClassify ==
    /\ InitState
    /\ platform = [win32 |-> TRUE, hook_ok |-> TRUE, spawn_ok |-> TRUE,
                   keyboard |-> FALSE, pynput |-> FALSE]
    /\ cls_in \in Texts

NextClassify == Classify

SpecClassify == InitClassify /\ [][NextClassify]_vars

\* The lock of the interceptor: set_enabled on the UI thread and _hook_proc on
\* the hook thread taken step by step, beside worker runs whose handlers call
\* set_enabled too, on a win32 platform whose hook installs.
InitLock ==
    /\ Init
    /\ platform = [win32 |-> TRUE, hook_ok |-> TRUE, spawn_ok |-> TRUE,
                   keyboard |-> FALSE, pynput |-> FALSE]

NextLock ==
    \/ SetupGlobalEscSupport
    \/ \E i \in 1..Len(threads) : ThreadSetId(i)
    \/ \E i \in 1..Len(threads) : ThreadInstall(i)
    \/ \E e \in BOOLEAN : SetEnabledCall(e)
    \/ SetEnabledAcquire
    \/ SetEnabledWrite
    \/ SetEnabledExit
    \/ \E ev \in KeyEvents, h \in os_hooks : HookProcCall(ev, h)
    \/ HookProcAcquire
    \/ HookProcRead
    \/ HookProcExit
    \/ HookProcTest
    \/ HookProcSwallow
    \/ HookProcForward
    \/ WorkerStart(MaxHookRuns)
    \/ WorkerEmit("finished", NoMsg)
    \/ WorkerExit
    \/ UiFree /\ UiStarted
    \/ UiFree /\ ShowCompletion
    \/ UiFree /\ UiStop
    \/ UiFree /\ DialogDismiss
    \/ TickShort

SpecLock == InitLock /\ [][NextLock]_vars

\* The connection manager: connect and disconnect_all called in any order,
\* with new objects or with objects it holds, and connect_worker_signals.
NextSignals ==
    \/ \E p \in ApiPairs, i, j \in 0..Len(connections) : ManagerConnect(p, i, j)
    \/ ManagerDisconnectAll
    \/ ConnectWorkerSignals

SpecSignals == Init /\ [][NextSignals]_vars

\* ================================================================ claims
\* A step in which the UI thread takes an event of type t from its queue.
Handling(t) ==
    /\ ui_queue # <<>>
    /\ Head(ui_queue).type = t
    /\ ui_queue' = Tail(ui_queue)

\* A step that opens a dialog.
Opens == Len(dialogs') = Len(dialogs) + 1

\* Run r is over: it has stopped running and all it emitted has been handled.
RunOver(r) ==
    /\ r <= run_id
    /\ (r = run_id => ~worker_running)
    /\ handled[r] >= 1
    /\ \A i \in 1..Len(ui_queue) : ui_queue[i].run # r

C2_ClosedWindow ==
    [][Handling("error") /\ manual_at # 0 =>
         /\ (now <= manual_at + 40 => ~Opens)
         /\ (now = manual_at + 42 => Opens)
      ]_vars

\* C2, amended: with the last ManualIntervention handled at t, an Error handled
\* before t + 2 s opens no dialog; an Error handled at t + 2 s or later (at
\* t + 2.1 s, say) opens one when its message matches neither a needs-manual
\* nor a user-stop pattern.
C2_HalfOpenWindow ==
    [][Handling("error") /\ manual_at # 0 =>
         LET msg == Head(ui_queue).msg IN
         /\ (now < manual_at + 40 => ~Opens)
         /\ (now >= manual_at + 40 /\ ~NeedsManual(msg) /\ ~UserStopped(msg) => Opens)
      ]_vars

\* C2, witness: an Error that matches no pattern was handled inside the window
\* of a ManualIntervention and opened no dialog.
C2_Witness ==
    /\ manual_at # 0
    /\ last_error.at >= manual_at
    /\ last_error.at < manual_at + 40
    /\ last_error.msg = MsgNetwork
    /\ ~last_error.shown

\* A step in which _hook_proc decides what becomes of the Esc event it holds.
CallbackDecides == cb.active /\ ~cb'.active

\* A step in which _on_press of the listener receives an abort-key trigger.
ListenerTrigger == ListenerRunning /\ keys_sent' = keys_sent + 1 /\ key_abort'

\* When the tier in use last accepted a trigger: the field its debounce reads.
LastAccepted ==
    IF ListenerRunning THEN _global_esc_last_hit_ts ELSE _last_hit_ts

\* C3, as stated: in whichever tier is active, a trigger while armed (and the
\* worker running) less than 250 ms after the last accepted one produces no
\* stop request, and one 250 ms or more after it produces exactly one.
C3_Debounce250AnyTier ==
    [][(\/ CallbackDecides /\ cb.enabled
        \/ ListenerTrigger /\ _enabled) /\ worker_running =>
         IF now - LastAccepted < 5
           THEN stop_requests' = stop_requests
           ELSE stop_requests' = stop_requests + 1
      ]_vars

\* C3, amended: while the worker runs, a trigger in the native-hook tier (armed)
\* produces no stop request less than 250 ms after the last accepted one and
\* exactly one 250 ms or more after it; in the listener tier the interval is
\* 350 ms.  Hence no stop request follows another by less than the tier's
\* interval, no step produces more than one, and none is produced while the
\* worker is not running.
C3_Debounce250Native350Listener ==
    /\ [][CallbackDecides /\ cb.enabled /\ worker_running =>
            IF now - LastAccepted < 5
              THEN stop_requests' = stop_requests
              ELSE stop_requests' = stop_requests + 1
         ]_vars
    /\ [][ListenerTrigger /\ worker_running =>
            IF now - LastAccepted < 7
              THEN stop_requests' = stop_requests
              ELSE stop_requests' = stop_requests + 1
         ]_vars
    /\ [][stop_requests' # stop_requests =>
            /\ stop_requests' = stop_requests + 1
            /\ worker_running
            /\ IF ListenerRunning
                 THEN ListenerTrigger /\ now - last_stop_at >= 7
                 ELSE CallbackDecides /\ cb.enabled /\ now - last_stop_at >= 5
         ]_vars

\* C3, witness: two triggers swallowed by the native hook, the second 250 ms
\* or more after the first, with two stop requests.
C3_Witness ==
    /\ Pumping # {}
    /\ keys_sent = 2
    /\ key_result = "swallowed"
    /\ stop_requests = 2
    /\ last_stop_at >= Epoch + 5

\* A step that settles what becomes of a key event.
KeySettled ==
    \/ keys_sent' = keys_sent + 1 /\ key_result' # "pending"
    \/ CallbackDecides

\* C4: a key event is swallowed only if the worker is running when the callback
\* decides; while the worker is not running every key event, the abort key
\* included, is forwarded.
C4_SwallowOnlyWhileRunning ==
    [][KeySettled =>
         /\ key_result' \in {"swallowed", "forwarded"}
         /\ (key_result' = "swallowed" => worker_running)
         /\ (~worker_running => key_result' = "forwarded")
      ]_vars

\* C4, witness: the abort key went down while the flag was set and the worker
\* had returned, and was forwarded.
C4_Witness ==
    /\ key_abort
    /\ key_result = "forwarded"
    /\ _enabled
    /\ ~worker_running
    /\ ~cb.active
    /\ Pumping # {}
    /\ run_id = 1

\* C5, as stated: the armed flag is true iff the worker is currently running.
C5_ArmedIffRunning == _enabled <=> worker_running

\* C5, amended: the armed flag is true only between the handling of a
\* worker-start event and the handling of that run's first terminal signal: it
\* is false before the first start is handled, and from the handling of a
\* terminal signal to the handling of the next start.
C5_ArmedOnlyBetweenStartAndTerminal ==
    _enabled => started_run >= 1 /\ handled[started_run] = 0

\* C5, witness: the second run is armed after the first one was disarmed by its
\* terminal signal.
C5_Witness ==
    /\ _enabled
    /\ started_run = 2
    /\ handled[1] >= 1
    /\ handled[2] = 0
    /\ worker_running

\* C6: each of the four terminal handlers disarms the interceptor, whatever
\* else it decides, before it opens its dialog: the step that handles a
\* terminal signal ends disarmed, and no dialog of a run is open while the
\* flag is still set for that run.
C6_DisarmedBeforeDialog ==
    /\ [][\A t \in TerminalTypes : Handling(t) => ~_enabled']_vars
    /\ [](\A i \in 1..Len(dialogs) : ~(_enabled /\ started_run = dialogs[i].run))

\* C6, witness: the dialogs of a ManualIntervention and a ThresholdExceeded
\* signal of the armed run are open, and the flag is clear.
C6_Witness ==
    /\ Len(dialogs) = 2
    /\ dialogs[1].kind = "manual"
    /\ dialogs[2].kind = "threshold"
    /\ dialogs[1].run = started_run
    /\ dialogs[2].run = started_run
    /\ worker_running
    /\ ~_enabled

\* C7, as stated: the callback swallows an event only when it is the abort key
\* going down, the flag is set and 250 ms have passed since the last accepted
\* trigger; every swallowed event schedules exactly one stop request; every
\* other event is forwarded.
C7_SwallowOnlyAfterDebounce ==
    [][(key_result' = "swallowed" /\ CallbackDecides =>
           /\ cb.enabled
           /\ now - _last_hit_ts >= 5
           /\ stop_requests' = stop_requests + 1)
       /\ (CallbackDecides /\ ~(cb.enabled /\ now - _last_hit_ts >= 5) =>
           key_result' = "forwarded")
      ]_vars

\* C7, amended: the callback swallows an event exactly when it is the abort key
\* going down (HC_ACTION, WM_KEYDOWN or WM_SYSKEYDOWN, VK_ESCAPE), the flag was
\* read set and the worker is running; a swallowed event schedules exactly one
\* stop request when 250 ms have passed since the last accepted trigger and
\* none otherwise; every other event is forwarded and schedules nothing.
C7_SwallowWhileArmedAndRunning ==
    [][(CallbackDecides =>
           /\ cb.ev.nCode = "HC_ACTION"
           /\ cb.ev.wParam \in {"WM_KEYDOWN", "WM_SYSKEYDOWN"}
           /\ cb.ev.vkCode = "VK_ESCAPE"
           /\ key_result' = (IF cb.enabled /\ worker_running
                               THEN "swallowed" ELSE "forwarded")
           /\ stop_requests' = stop_requests +
                (IF cb.enabled /\ worker_running /\ now - _last_hit_ts >= 5
                   THEN 1 ELSE 0))
       /\ (Pumping # {} /\ keys_sent' = keys_sent + 1 =>
           /\ stop_requests' = stop_requests
           /\ (IF key_abort' THEN key_result' = "pending" /\ cb'.active
                             ELSE key_result' = "forwarded" /\ ~cb'.active))
       /\ (key_result' = "swallowed" /\ key_result # "swallowed" => CallbackDecides)
      ]_vars

\* C7, witness: a second trigger less than 250 ms after the first was swallowed
\* and scheduled no stop request.
C7_Witness ==
    /\ keys_sent = 2
    /\ key_result = "swallowed"
    /\ stop_requests = 1
    /\ now - last_stop_at < 5
    /\ worker_running
    /\ _enabled

\* C8: on a platform that is not win32, with neither library, start() returns
\* False if it is called, the enabling and disabling slots change nothing, no
\* thread, hook, hotkey or listener exists, the flag is never set, no key event
\* is swallowed and none schedules a stop request.
C8_NoCapabilityNoEffect ==
    (~platform.win32 /\ ~platform.keyboard /\ ~platform.pynput) =>
        /\ start_ret \in {"none", "false"}
        /\ (start_calls >= 1 => start_ret = "false")
        /\ ~_enabled
        /\ _exclusive_esc_hotkey_id = 0
        /\ _global_esc_listener = "none"
        /\ threads = <<>>
        /\ os_hooks = {}
        /\ _thread = 0
        /\ key_result \in {"none", "forwarded"}
        /\ stop_requests = 0

\* C8, witness: on such a platform start() has returned False, a worker run was
\* started and its start and terminal events were handled, and the abort key
\* went down during the run and was forwarded.
C8_Witness ==
    /\ ~platform.win32 /\ ~platform.keyboard /\ ~platform.pynput
    /\ start_ret = "false"
    /\ started_run = 1
    /\ handled[1] >= 1
    /\ key_abort
    /\ key_result = "forwarded"

\* C9: the worker was started and armed the hook, the abort key went down once
\* and was swallowed, and the Error of a stop by the user was handled: then
\* exactly one stop request was issued, the Error opened no dialog, the window
\* is back in its not-running state and the hook is disarmed.
C9_UserStopIsSilent ==
    (/\ run_id = 1 /\ started_run = 1
     /\ keys_sent = 1 /\ key_abort /\ key_result = "swallowed"
     /\ handled[1] = 1 /\ last_error.at # 0 /\ last_error.msg = MsgStop)
    =>
    (/\ stop_requests = 1
     /\ ~last_error.shown
     /\ presented[1] = 0
     /\ dialogs = <<>>
     /\ ~ui_running
     /\ ~_enabled)

\* C9, witness: the scenario has run to its end.
C9_Witness ==
    /\ run_id = 1 /\ started_run = 1
    /\ keys_sent = 1 /\ key_abort /\ key_result = "swallowed"
    /\ stop_flag /\ ~worker_running
    /\ handled[1] = 1 /\ last_error.at # 0 /\ last_error.msg = MsgStop
    /\ ui_queue = <<>>

\* C10: however often start() is called, the hook is installed at most once, at
\* most one hook handle and one hook thread exist, and where a thread can be
\* started every call returns True; once the one thread has installed, later
\* calls install nothing.
C10_StartTwiceInstallsOnce ==
    /\ installs <= 1
    /\ Cardinality(os_hooks) <= 1
    /\ Len(threads) <= 1
    /\ (platform.win32 /\ platform.spawn_ok /\ start_calls >= 1 => start_ret = "true")
    /\ (start_ret = "true" => _thread = 1 /\ Len(threads) = 1)

\* C10, witness: start() was called twice, both calls returned True and one hook
\* is installed.
C10_Witness ==
    /\ start_calls = 2
    /\ start_ret = "true"
    /\ installs = 1
    /\ os_hooks = {1}
    /\ Len(threads) = 1

\* A step that is a call of the operation named.
Calls(name) == api_seq' # api_seq /\ api_last' = name

\* C11: enable(), disable() and stop() return, and are idempotent: called again
\* on the state the same call left, each changes nothing; disable() while
\* disabled changes nothing; stop() before start() changes nothing, and stop()
\* after a stop() changes nothing.
C11_IdempotentCalls ==
    /\ [][\A c \in {"enable", "disable", "stop"} :
            Calls(c) /\ api_last = c /\ api_snap = ApiState => ApiState' = ApiState
         ]_vars
    /\ [][Calls("disable") /\ ~_enabled /\ _exclusive_esc_hotkey_id = 0 =>
            ApiState' = ApiState]_vars
    /\ [][Calls("stop") /\ (_thread = 0 \/ _thread_id \in wm_quit) =>
            ApiState' = ApiState]_vars
    /\ [][Calls("enable") => _enabled' = platform.win32]_vars
    /\ [][Calls("disable") => ~_enabled']_vars

\* C11, witness: stop() was called twice in a row on a started interceptor, the
\* second call on the state the first one left.
C11_Witness ==
    /\ api_last = "stop"
    /\ api_snap = ApiState
    /\ api_seq = 0
    /\ _thread_id # 0
    /\ _thread_id \in wm_quit
    /\ _enabled

\* C12, as stated, in the form a finite run refutes: once stop() has been
\* called on an interceptor whose start() returned True, the hook thread is on
\* its way out: it never sits in its message loop, hook installed, with no
\* WM_QUIT posted to it (nothing posts one later).
C12_StopReleasesHook ==
    (app_pc = "quit" /\ start_ret = "true") =>
        \A i \in 1..Len(threads) : threads[i] = "loop" => i \in wm_quit

\* A step of the hook thread's callback or of the listener thread.
KeyThreadStep == CallbackDecides \/ keys_sent' = keys_sent + 1

\* What the UI thread and the worker own, the listener's own time stamp apart.
UiOwned ==
    <<stop_flag, worker_running, run_id, emitted, ui_running, dialogs,
      _enabled, _exclusive_esc_hotkey_id, _suppress_error_dialog_until,
      _global_esc_listener, app_pc>>

\* C13, as stated: a step of the hook thread or of the listener thread changes
\* no field of the Application, no UI state and no worker-control state: it
\* only adds a stop task to the UI thread's queue, and the stop is carried out
\* by the UI thread when it takes the task from the queue.
C13_NoFieldTouchedOffUiThread ==
    /\ [][KeyThreadStep =>
            /\ UNCHANGED <<UiOwned, _global_esc_last_hit_ts>>
            /\ \/ ui_queue' = ui_queue
               \/ ui_queue' = Append(ui_queue, Event("stop", NoMsg, run_id))
         ]_vars
    /\ [][stop_flag' # stop_flag /\ stop_flag' => Handling("stop")]_vars

\* C13, amended: in the native-hook tier and in the listener tier a step of the
\* hook or listener thread changes no UI state and no worker-control state: it
\* only adds a stop task to the UI thread's queue, and the stop is carried out
\* by the UI thread when it takes the task from the queue.  The one field of
\* the Application such a step writes is the listener's own debounce time
\* stamp, _global_esc_last_hit_ts.
C13_OnlyEnqueueOffUiThread ==
    /\ [][KeyThreadStep =>
            /\ UNCHANGED UiOwned
            /\ (_global_esc_last_hit_ts' # _global_esc_last_hit_ts =>
                  ListenerRunning /\ _global_esc_last_hit_ts' = now)
            /\ \/ ui_queue' = ui_queue
               \/ ui_queue' = Append(ui_queue, Event("stop", NoMsg, run_id))
         ]_vars
    /\ [][stop_flag' # stop_flag /\ stop_flag' => Handling("stop")]_vars

\* C13, witness: the hook swallowed a trigger, its stop task went through the
\* queue, and the UI thread has told the worker to stop.
C13_Witness ==
    /\ key_result = "swallowed"
    /\ stop_requests = 1
    /\ stop_flag
    /\ worker_running
    /\ ui_queue = <<>>

\* The fields that both the UI thread and the hook thread have read or written.
SharedFields ==
    { f \in { a.field : a \in accesses } :
        \E a, b \in accesses : a.field = f /\ b.field = f /\ a.thread # b.thread }

\* C14, as stated: every read and every write of _enabled and of _last_hit_ts
\* is done with the lock held, and no other field is accessed from both
\* threads.
C14_AllAccessUnderLock ==
    /\ \A a \in accesses : a.field \in {"_enabled", "_last_hit_ts"} => a.locked
    /\ SharedFields \subseteq {"_enabled", "_last_hit_ts"}

\* C14, amended: every read and every write of _enabled is done with the lock
\* held; _last_hit_ts is read and written without the lock, by the hook thread
\* only; the only other field accessed from both threads is _thread_id, which
\* the hook thread writes and stop() reads without the lock.
C14_FlagUnderLockStampOnHookThread ==
    /\ \A a \in accesses : a.field = "_enabled" => a.locked
    /\ \A a \in accesses : a.field = "_last_hit_ts" => a.thread = "hook" /\ ~a.locked
    /\ SharedFields \subseteq {"_enabled", "_thread_id"}
    /\ \A a \in accesses : a.field = "_thread_id" =>
          ~a.locked /\ (a.op = "write" <=> a.thread = "hook")

\* C14, witness: the flag was written by the UI thread and read by the hook
\* thread, the time stamp was read and written by the callback, and stop() has
\* read the thread id the hook thread wrote.
C14_Witness ==
    /\ {set_enabled_access, hook_proc_enabled_access, hook_proc_ts_read,
        hook_proc_ts_write, thread_id_write, stop_access} \subseteq accesses
    /\ SharedFields = {"_enabled", "_thread_id"}

\* The pattern lists in the order of the contract, with their categories.
C15_Order ==
    << <<"timeout", PatTimeout>>, <<"auth", PatAuth>>, <<"quota", PatQuota>>,
       <<"rate", PatRate>>, <<"upstream", PatUpstream>>, <<"file", PatFile>> >>

\* Whether the text holds a pattern of the k-th list, in whatever case.
C15_Has(k) == \E i \in 1..Len(cls_in) : cls_in[i].w \in C15_Order[k][2]

\* C15: the classifier returns for every text; it returns the category of the
\* first list, in the order timeout, authentication, quota, rate limit,
\* upstream, file, of which the text holds a pattern in whatever letter case,
\* and a fallback when it holds none; a text with a timeout pattern is a
\* timeout whatever else it holds.
C15_FirstMatchWins ==
    cls_out # "none" =>
        /\ cls_out \in {"timeout", "auth", "quota", "rate", "upstream", "file",
                        "empty", "generic"}
        /\ \A k \in 1..Len(C15_Order) :
              cls_out = C15_Order[k][1] <=>
                  (C15_Has(k) /\ \A j \in 1..(k - 1) : ~C15_Has(j))
        /\ (C15_Has(1) => cls_out = "timeout")

\* C15, witness: a text with a rate-limit pattern followed by a timeout pattern
\* in upper case was classified as a timeout.
C15_Witness ==
    /\ cls_in = <<Piece("429", FALSE), Piece("timed out", TRUE)>>
    /\ cls_out = "timeout"

\* The tiers that hold a means of capture: the hook thread of the native tier,
\* the hotkey of the keyboard library, the listener of pynput.
TiersAttempted ==
    (IF _thread # 0 THEN {"native"} ELSE {}) \cup
    (IF _exclusive_esc_hotkey_id # 0 THEN {"hotkey"} ELSE {}) \cup
    (IF _global_esc_listener # "none" THEN {"listener"} ELSE {})

\* The tiers that receive the abort key now.
TiersCapturing ==
    (IF Pumping # {} THEN {"native"} ELSE {}) \cup
    (IF _exclusive_esc_hotkey_id # 0 THEN {"hotkey"} ELSE {}) \cup
    (IF ListenerRunning THEN {"listener"} ELSE {})

\* The order of selection, in every state.
C16_FixedOrder ==
    /\ (_global_esc_listener # "none" =>
            platform.win32 /\ start_ret # "true" /\ ~platform.keyboard /\ _thread = 0)
    /\ (_exclusive_esc_hotkey_id # 0 => start_ret # "true" /\ _thread = 0)
    /\ (app_pc = "init" => TiersAttempted = {})
    /\ Cardinality(TiersAttempted) <= 1
    /\ Cardinality(TiersCapturing) <= 1
    /\ (app_pc # "init" /\ start_calls = 1 =>
            ("native" \in TiersAttempted <=> start_ret = "true"))

\* C16: the candidates are tried in the order native hook, keyboard library,
\* listener: the listener exists only on win32 when start() did not return
\* True and the keyboard library is absent, and no hotkey exists when start()
\* returned True; at most one tier has a means of capture and at most one is
\* capturing; and once selection has run, the tier attempted never changes.
C16_OneTierInFixedOrder ==
    /\ []C16_FixedOrder
    /\ [][app_pc # "init" => TiersAttempted' = TiersAttempted]_vars

\* C16, witness: the hook is pumping on a platform where the keyboard library
\* and pynput are both there, and neither of them was given the key.
C16_Witness ==
    /\ platform.keyboard /\ platform.pynput
    /\ Pumping # {}
    /\ worker_running
    /\ TiersAttempted = {"native"}

\* The hook thread asked SetWindowsHookExW for a hook, was refused and left.
InstallRefused ==
    /\ ~platform.hook_ok
    /\ \E i \in 1..Len(threads) : threads[i] \in {"finally", "dead"}

\* C17, as stated: when SetWindowsHookExW returns a null handle, start() has
\* not reported success, and when the keyboard library or pynput is there the
\* process is not left without a tier that captures the abort key: the
\* keyboard library is given the key at worker start, or the listener runs.
C17_InstallFailureAdvances ==
    InstallRefused =>
        /\ start_ret # "true"
        /\ (platform.pynput /\ ~platform.keyboard /\ app_pc = "ready"
                => ListenerRunning)
        /\ (platform.keyboard /\ worker_running /\ app_pc = "ready"
                => _exclusive_esc_hotkey_id # 0)

\* The keyboard library is the tier selected: win32, no hook thread was
\* started, the library imported.
ManagedTierSelected ==
    /\ platform.win32
    /\ platform.keyboard
    /\ app_pc = "ready"
    /\ _thread = 0

\* C18, as stated: when the keyboard library is the tier selected, the slot of
\* worker.started registers the suppressing hotkey, so that a hotkey is
\* registered while the run it was started for is running and unterminated.
C18_HotkeyWhileWorkerRuns ==
    (/\ ManagedTierSelected
     /\ run_id >= 1
     /\ started_run = run_id
     /\ worker_running
     /\ handled[run_id] = 0)
        => _exclusive_esc_hotkey_id # 0

\* C19: an Error handled outside the suppression window whose message holds a
\* needs-manual pattern opens no dialog and leaves the window not running,
\* whether or not it also holds a user-stop pattern; one that holds a
\* user-stop pattern and no needs-manual pattern opens no dialog through the
\* user-stop branch; any other is presented.  A run whose Error with a
\* needs-manual message was handled outside the window and which delivered
\* its ManualIntervention as its other signal has presented one dialog.
C19_ErrorResolutionOrder ==
    /\ [][Handling("error") /\ ~(now < _suppress_error_dialog_until) =>
            LET m == Head(ui_queue).msg IN
              /\ NeedsManual(m) =>
                    ~Opens /\ ~ui_running' /\ last_error'.branch = "manual"
              /\ ~NeedsManual(m) /\ UserStopped(m) =>
                    ~Opens /\ ~ui_running' /\ last_error'.branch = "userstop"
              /\ ~NeedsManual(m) /\ ~UserStopped(m) =>
                    Opens /\ last_error'.branch = "present"]_vars
    /\ []((/\ run_id = 1
           /\ RunOver(1)
           /\ handled[1] = 2
           /\ last_error.branch = "manual"
           /\ manual_at >= last_error.at)
              => presented[1] = 1)

\* C19, witness: the Error of the run, with a message of both kinds, was
\* handled outside the window without a dialog, its ManualIntervention was
\* handled after it, and the run has presented one dialog.
C19_Witness ==
    /\ run_id = 1
    /\ RunOver(1)
    /\ handled[1] = 2
    /\ last_error.msg = MsgBoth
    /\ last_error.branch = "manual"
    /\ manual_at >= last_error.at
    /\ presented[1] = 1

C21_OneOutcomeThenIdle ==
    /\ [][\A t \in TerminalTypes : Handling(t) =>
            LET r == Head(ui_queue).run IN
              /\ handled' = [handled EXCEPT ![r] = @ + 1]
              /\ \/ Opens /\ presented' = [presented EXCEPT ![r] = @ + 1]
                 \/ dialogs' = dialogs /\ presented' = presented /\ ~ui_running']_vars
    /\ [][Len(dialogs') < Len(dialogs) =>
            ~ui_running' /\ main_window' = "front"]_vars

\* C21, witness: of the two signals of the run one was suppressed and one was
\* presented, its dialog has been dismissed, and the window is idle in front.
C21_Witness ==
    /\ run_id = 1
    /\ RunOver(1)
    /\ handled[1] = 2
    /\ presented[1] = 1
    /\ dialogs = <<>>
    /\ ~ui_running
    /\ main_window = "front"
    /\ last_error.branch = "window"

\* C22: a step of the callback in which an exception is raised, at the read of
\* the flag, in the should-swallow predicate or in the stop-request callback,
\* forwards the key event and leaves the hook thread, the installed hooks and
\* the handle as they were, with no callback left in progress; so once an
\* exception has been raised the hook is still installed and pumping.
C22_FaultCaughtAndForwarded ==
    /\ [][hook_faults' # hook_faults =>
            /\ key_result' = "forwarded"
            /\ threads' = threads
            /\ os_hooks' = os_hooks
            /\ _hook_handle' = _hook_handle
            /\ ~cb'.active]_vars
    /\ [](hook_faults > 0 => Pumping # {} /\ _hook_handle \in Pumping)

\* C22, witness: after an exception inside the callback, a later abort key was
\* swallowed by the same hook.
C22_Witness ==
    /\ hook_faults = 1
    /\ keys_sent = 2
    /\ key_result = "swallowed"
    /\ stop_requests = 1

\* No candidate can capture the key: off win32; or on win32 when the hook
\* thread cannot be started or its hook is refused, and neither the keyboard
\* library nor pynput is there.
NoTierAvailable ==
    \/ ~platform.win32
    \/ /\ ~(platform.spawn_ok /\ platform.hook_ok)
       /\ ~platform.keyboard
       /\ ~platform.pynput

\* C23, as stated: when no candidate is available, selection has logged the
\* line of total unavailability, and from then on the armed flag is never set
\* and the interceptor schedules no stop request.
C23_TotalFailureReportedAndDisarmed ==
    (app_pc # "init" /\ NoTierAvailable) =>
        /\ tier_log = "unavailable"
        /\ ~_enabled
        /\ stop_requests = 0

\* The hook thread has unhooked its handle and cleared the field.
Released == \E i \in 1..Len(threads) : threads[i] = "dead"

\* C24: every read and write of _hook_handle after construction is done by the
\* hook thread, a step that changes the field is a step of that thread, and
\* once the handle has been released no hook is installed, no callback is in
\* progress or begins, the log of the accesses of the field gets no new entry,
\* and the field stays cleared.
C24_HandleOwnedByHookThread ==
    /\ [](\A a \in accesses : a.field = "_hook_handle" => a.thread = "hook")
    /\ [][_hook_handle' # _hook_handle =>
            \E i \in 1..Len(threads) :
                /\ threads[i] \in {"install", "finally"}
                /\ threads'[i] # threads[i]]_vars
    /\ [](Released => os_hooks = {} /\ ~cb.active /\ _hook_handle = 0)
    /\ [][Released =>
            /\ ~cb'.active
            /\ _hook_handle' = 0
            /\ \A a \in accesses' : a.field = "_hook_handle" => a \in accesses]_vars

\* C24, witness: the handle was installed, read by a callback and released
\* after stop() ran on the UI thread.
C24_Witness ==
    /\ Released
    /\ installs = 1
    /\ hook_proc_handle_read \in accesses
    /\ stop_access \in accesses
    /\ set_enabled_access \in accesses

\* C25: while the listener of pynput runs, every key event is forwarded, and a
\* stop request is scheduled only by the step of a key event that is the abort
\* key going down, taken while the worker is running.
C25_ListenerNeverSwallows ==
    /\ [](ListenerRunning => key_result \in {"none", "forwarded"})
    /\ [][ListenerRunning /\ stop_requests' # stop_requests =>
            /\ keys_sent' = keys_sent + 1
            /\ key_abort'
            /\ worker_running
            /\ stop_requests' = stop_requests + 1]_vars

\* C25, witness: the listener runs, the abort key went down while the worker
\* was running, it was forwarded and a stop request was scheduled.
C25_Witness ==
    /\ ListenerRunning
    /\ key_abort
    /\ key_result = "forwarded"
    /\ stop_requests = 1
    /\ worker_running

C27_NoPattern == \A k \in 1..Len(C15_Order) : ~C15_Has(k)

\* C27, as stated: a non-empty text in which no pattern matches is classified
\* generic; when it is longer than 80 characters the sentence quotes exactly
\* 80 characters and the ellipsis follows, else it quotes the text whole with
\* no ellipsis.
C27_TruncatesMessageAt80 ==
    (cls_out # "none" /\ C27_NoPattern /\ cls_in # <<>>) =>
        /\ cls_out = "generic"
        /\ IF TextLen(cls_in) > 80
             THEN TextLen(cls_tip.text) = 80 /\ cls_tip.ellipsis
             ELSE cls_tip.text = cls_in /\ ~cls_tip.ellipsis

\* What is left of the text when the blanks at its ends are dropped.
C27_Core ==
    LET idx == { i \in 1..Len(cls_in) : cls_in[i].w # " " } IN
      IF idx = {} THEN <<>>
      ELSE SubSeq(cls_in, CHOOSE i \in idx : \A j \in idx : i <= j,
                          CHOOSE i \in idx : \A j \in idx : i >= j)

\* C27, amended: a text in which no pattern matches is never an error: when
\* nothing is left of it once the blanks at its ends are dropped, the sentence
\* of the missing reason is returned; else it is classified generic, and what
\* is left is quoted whole with no ellipsis when it has 80 characters or less,
\* and cut to its first 80 characters followed by the ellipsis when it has more.
C27_TruncatesStrippedMessageAt80 ==
    (cls_out # "none" /\ C27_NoPattern) =>
        /\ (C27_Core = <<>> => cls_out = "empty" /\ cls_tip = NoTip)
        /\ (C27_Core # <<>> => cls_out = "generic")
        /\ (C27_Core # <<>> /\ TextLen(C27_Core) <= 80 =>
                cls_tip.text = C27_Core /\ ~cls_tip.ellipsis)
        /\ (C27_Core # <<>> /\ TextLen(C27_Core) > 80 =>
                /\ TextLen(cls_tip.text) = 80
                /\ cls_tip.ellipsis
                /\ Len(cls_tip.text) <= Len(C27_Core)
                /\ \A i \in 1..Len(cls_tip.text) :
                      /\ cls_tip.text[i].w = C27_Core[i].w
                      /\ cls_tip.text[i].n <= C27_Core[i].n
                      /\ (i < Len(cls_tip.text) => cls_tip.text[i] = C27_Core[i]))

\* C27, witness: a text of 81 characters with no pattern was cut to 80 and
\* given the ellipsis.
C27_Witness ==
    /\ cls_in = <<Filler(80), Filler(81)>>
    /\ cls_out = "generic"
    /\ cls_tip = [text |-> <<Filler(80)>>, ellipsis |-> TRUE]

\* C28, as stated: while the armed flag is false, that is from the return of
\* set_enabled(False) to the next set_enabled(True), the callback swallows no
\* event and schedules no stop request, a callback that read the flag before
\* set_enabled(False) included.
C28_NoSwallowAfterDisable ==
    [][CallbackDecides /\ ~_enabled =>
           /\ key_result' = "forwarded"
           /\ stop_requests' = stop_requests]_vars

\* C29, as stated: at most one notification dialog is open at any time.
C29_AtMostOneDialogOpen == Len(dialogs) <= 1

\* C30, as stated: an Error handled when no ManualIntervention has been
\* handled since the last worker start, so that a suppression window, if there
\* is one, was opened before that start, is not suppressed by the window: it
\* opens its dialog unless its own message holds a needs-manual or a user-stop
\* pattern.
C30_WindowDoesNotCarryOver ==
    [][Handling("error") /\ ~manual_since_start /\ Head(ui_queue).run = run_id
         /\ ~NeedsManual(Head(ui_queue).msg) /\ ~UserStopped(Head(ui_queue).msg)
            => Opens]_vars

\* C31, as stated: in the passive-listener tier an abort-key press while the
\* worker runs schedules a stop request unless a stop request was scheduled
\* within the preceding 350 ms; a press made while the worker was not running
\* does not make a later press during a run go unanswered.
C31_IdlePressDoesNotConsumeDebounce ==
    [][ListenerTrigger /\ worker_running
         /\ ~(now - last_stop_at < PASSIVE_DEBOUNCE)
            => stop_requests' = stop_requests + 1]_vars

\* A step of _hook_proc that runs self._should_swallow(), self._on_esc() or
\* CallNextHookEx.
HookRunsOutside ==
    /\ hp_call.pc \in {"test", "swallow", "forward"}
    /\ hp_call'.pc # hp_call.pc

\* A thread that stands at its with while the other thread holds the lock.
UiWaits == se_call.pc = "acquire" /\ _lock # "free"
HookWaits == hp_call.pc = "acquire" /\ _lock # "free"

\* C32: the lock is held by set_enabled only around its one write of _enabled
\* and by _hook_proc only around its one read of it: whoever holds it has made
\* no field access or that one access, and is never itself waiting.  No step
\* that runs should_swallow(), on_esc() or CallNextHookEx is taken with the lock
\* held by the callback.  Hence the two never wait for each other, and a
\* thread waiting at its with finds the holder able to go on: the lock comes
\* free after one field access of the holder at most.
C32_LockHeldForOneAccessOnly ==
    /\ [](/\ (_lock = "ui" <=> se_call.pc \in {"write", "exit"})
          /\ (_lock = "hook" <=> hp_call.pc \in {"read", "exit"})
          /\ (_lock = "ui" => lock_accesses = IF se_call.pc = "write" THEN 0 ELSE 1)
          /\ (_lock = "hook" => lock_accesses = IF hp_call.pc = "read" THEN 0 ELSE 1)
          /\ ~(UiWaits /\ HookWaits)
          /\ (HookWaits => ENABLED (SetEnabledWrite \/ SetEnabledExit))
          /\ (UiWaits => ENABLED (HookProcRead \/ HookProcExit)))
    /\ [][HookRunsOutside => _lock # "hook" /\ _lock' # "hook"]_vars
    /\ [][_lock # "free" /\ _lock' = _lock /\ lock_accesses' # lock_accesses =>
            /\ lock_accesses = 0
            /\ \/ _lock = "ui" /\ se_call.pc = "write" /\ se_call'.pc = "exit"
               \/ _lock = "hook" /\ hp_call.pc = "read" /\ hp_call'.pc = "exit"]_vars

\* C32, witness: the callback stands at its with for Esc going down while
\* set_enabled holds the lock and has written the flag.
C32_Witness ==
    /\ hp_call.pc = "acquire"
    /\ _lock = "ui"
    /\ se_call.pc = "exit"
    /\ lock_accesses = 1
    /\ worker_running

\* Two pairs of objects that are the same signal and the same slot.
SamePair(a, b) == QtKey(a.signal, a.slot) = QtKey(b.signal, b.slot)

\* A step that is a call of the manager's operation op.
ManagerCalled(op) == mgr_hist'.seq # mgr_hist.seq /\ mgr_hist'.op = op

\* The managed list holds no (signal, slot) pair twice.
NoDuplicatePair ==
    \A i, j \in 1..Len(connections) :
        i # j => ~SamePair(connections[i], connections[j])

\* connect of a pair the list holds changes neither the list nor what Qt
\* holds.
ConnectOfManagedPairChangesNothing ==
    [][ManagerCalled("connect")
         /\ (\E i \in 1..Len(connections) : SamePair(connections[i], mgr_hist'))
            => connections' = connections /\ qt_conns' = qt_conns]_vars

\* disconnect_all leaves the list empty, whether each disconnect succeeded
\* or not.
DisconnectAllEmpties ==
    [][ManagerCalled("disconnect_all") => connections' = <<>>]_vars

\* The terminal signals and their notification handlers.
NotificationPairs == { ManagedPairs[k] : k \in {3, 4, 6, 8} }

\* After connect_worker_signals each terminal signal has its notification
\* handler connected once, and no other notification handler.
OneNotificationHandlerEach ==
    [][ManagerCalled("connect_worker_signals") =>
         \A p \in NotificationPairs, q \in NotificationPairs :
            CopiesIn([signal |-> p[1], slot |-> q[2], lam |-> 0], qt_conns') =
               IF p = q THEN 1 ELSE 0]_vars

\* C33, as stated: after any calls of connect and disconnect_all the managed
\* list holds no (signal, slot) pair twice, connect of a managed pair changes
\* nothing, disconnect_all leaves the list empty, and after every call of
\* connect_worker_signals each terminal signal has exactly one notification
\* handler.
C33_ManagedListHasNoDuplicates ==
    /\ []NoDuplicatePair
    /\ ConnectOfManagedPairChangesNothing
    /\ DisconnectAllEmpties
    /\ OneNotificationHandlerEach

====
